---- MODULE Spec2Model ----
(***************************************************************************)
(* A model of the extraction pipeline of starbound-mcp: the comment-aware  *)
(* sanitizer (stripJsonComments / readJsonFile), the recipe and research   *)
(* tree extractors of extract-fu.ts, the Markdown signature parser and the *)
(* overload merge of extract-lua-docs.ts, and the store writes of the      *)
(* extractors and of the seed script.                                      *)
(***************************************************************************)
EXTENDS Integers, Sequences, FiniteSets, TLC

(***************************************************************************)
(* Characters.  A text is a sequence of one-character strings.             *)
(***************************************************************************)
DQ == "\""
SQ == "'"
SL == "/"
ST == "*"
BS == "\\"
NL == "\n"
OC == "x"

\* Length bound of the enumerated sanitizer inputs.
MaxLen == 5

Alphabet == {DQ, SQ, SL, ST, BS, NL, OC}

RECURSIVE SeqsUpTo(_, _)
SeqsUpTo(S, n) ==
  IF n = 0 THEN {<<>>}
  ELSE LET shorter == SeqsUpTo(S, n - 1)
       IN  shorter \cup {Append(s, c) : s \in {t \in shorter : Len(t) = n - 1}, c \in S}

\* The spec's example text  {"a":"http://x"}
ExampleText ==
  <<"{", DQ, "a", DQ, ":", DQ, "h", "t", "t", "p", ":", SL, SL, OC, DQ, "}">>

StripInputs == SeqsUpTo(Alphabet, MaxLen) \cup {ExampleText}

VARIABLES
  text,        \* stripJsonComments: the input
  i,           \* stripJsonComments: 0-based read index
  result,      \* stripJsonComments: the output built so far
  inString,    \* stripJsonComments: inside a string literal
  stringChar,  \* stripJsonComments: the quote that opened the literal
  stripCalls,  \* the inputs of the calls of stripJsonComments that have
               \* returned, oldest first
  tableFiles,  \* extract-fu main: centrifuge_recipes.config and the files of
               \* EXTRACTION_CONFIGS under the root, each missing or a file
  groupIdx,    \* extractCentrifugeRecipes: top-level entries the loop has passed
  centrifugeRecipes, \* extractCentrifugeRecipes: the recipes pushed so far
  labIdx,      \* extractExtractionRecipes: entries of EXTRACTION_CONFIGS passed
  extractionRecipes, \* extractExtractionRecipes: allRecipes so far
  tpc,         \* extract-fu main: "idle", "centrifuge", "lab", "extracted",
               \* "stored" or "thrown"
  recipeFiles, \* extractRecipes: the files walkDir found, in order
  fileIdx,     \* extractRecipes: number of files the for loop has consumed
  recipes,     \* extractRecipes: the recipes pushed so far
  rpc,         \* extractRecipes: "idle", "loop", "returned" or "thrown"
  sigHeading,  \* the parts a documentation heading was written from
  sigLine,     \* parseMarkdownFile: the heading line, as text
  sigOut,      \* parseMarkdownFile: what the line yields
  storeRuns,   \* the runs made against the store so far, oldest first
  configFiles, \* extractResearchTrees: the .config files walkDir returns
  configIdx,   \* extractResearchTrees: files done in the current pass
  nodes,       \* extractResearchTrees: the nodes pushed so far
  childToParent, \* extractResearchTrees: the Map of pass 2, in key order
  respc,       \* extractResearchTrees: "idle", "pass1", "pass2", "assign",
               \* "returned" or "thrown"
  docFiles,    \* extract-lua-docs main: the .md files of doc/lua, as lines
  docIdx,      \* extract-lua-docs main: number of files parsed
  lineIdx,     \* parseMarkdownFile: the 0-based line index i
  functions,   \* parseMarkdownFile: the functions of the file being parsed
  baseFunctions, \* extract-lua-docs main: the functions of doc/lua
  osbFunctions,  \* extract-lua-docs main: the functions of doc/lua/openstarbound
  lpc,         \* extract-lua-docs main: "idle", "parse", "insert" or "done"
  cppCalls,    \* extractFieldsFromFile: the accessor calls of the file, in order
  pattern,     \* extractFieldsFromFile: the pattern whose loop runs, 1 to 6;
               \* 0 before the call and 7 after the return
  callIdx,     \* extractFieldsFromFile: calls the running exec loop has passed
  fields,      \* extractFieldsFromFile: the candidates pushed so far
  seen,        \* extractFieldsFromFile: the Set of keys
  fuBase,      \* insertData: the store as the run found it
  fuBatch,     \* insertData: the batch whose transaction is open, 1 to 4
  fuWrites,    \* insertData: statements the open transaction has run
  txnStart,    \* insertData: the store as of the last commit
  fupc,        \* insertData: "idle", "ready", "batch", "failed", "dead" or "done"
  db           \* the knowledge store: its tables and autoincrement counters

stripVars == <<text, i, result, inString, stringChar>>
recipeVars == <<recipeFiles, fileIdx, recipes, rpc>>
sigVars == <<sigHeading, sigLine, sigOut>>
luaVars == <<docFiles, docIdx, lineIdx, functions, baseFunctions, osbFunctions, lpc>>

researchVars == <<configFiles, configIdx, nodes, childToParent, respc>>
fuVars == <<fuBase, fuBatch, fuWrites, txnStart, fupc>>
fieldVars == <<cppCalls, pattern, callIdx, fields, seen>>
againVars == <<stripCalls>>
tableVars == <<tableFiles, groupIdx, centrifugeRecipes, labIdx, extractionRecipes, tpc>>
vars == <<stripVars, recipeVars, sigVars, luaVars, researchVars, fuVars, fieldVars, storeRuns, db, againVars, tableVars>>

nonStripVars == <<recipeVars, sigVars, luaVars, researchVars, fuVars, fieldVars, storeRuns, db, againVars, tableVars>>
nonRecipeVars == <<stripVars, sigVars, luaVars, researchVars, fuVars, fieldVars, storeRuns, db, againVars, tableVars>>
nonSigVars == <<stripVars, recipeVars, luaVars, researchVars, fuVars, fieldVars, storeRuns, db, againVars, tableVars>>
nonLuaVars == <<stripVars, recipeVars, sigVars, researchVars, fuVars, fieldVars, storeRuns, againVars, tableVars>>
nonStoreVars == <<stripVars, recipeVars, sigVars, luaVars, researchVars, fuVars, fieldVars, againVars, tableVars>>
nonResearchVars == <<stripVars, recipeVars, sigVars, luaVars, fuVars, fieldVars, storeRuns, db, againVars, tableVars>>

\* the parts of the state a component does not use stay as constructed
StripIdle ==
  /\ stripCalls = <<>>
  /\ text = <<>>
  /\ i = 0
  /\ result = <<>>
  /\ inString = FALSE
  /\ stringChar = ""

TablesIdle ==
  /\ tableFiles = <<>>
  /\ groupIdx = 0
  /\ centrifugeRecipes = <<>>
  /\ labIdx = 0
  /\ extractionRecipes = <<>>
  /\ tpc = "idle"

RecipeIdle ==
  /\ recipeFiles = <<>>
  /\ fileIdx = 0
  /\ recipes = <<>>
  /\ rpc = "idle"

SigIdle ==
  /\ sigHeading = <<>>
  /\ sigLine = <<>>
  /\ sigOut = [st |-> "idle"]

LuaIdle ==
  /\ docFiles = <<>>
  /\ docIdx = 0
  /\ lineIdx = 0
  /\ functions = <<>>
  /\ baseFunctions = <<>>
  /\ osbFunctions = <<>>
  /\ lpc = "idle"

ResearchIdle ==
  /\ configFiles = <<>>
  /\ configIdx = 0
  /\ nodes = <<>>
  /\ childToParent = <<>>
  /\ respc = "idle"

\* the store as initializeSchema creates it: every table empty
EmptyDb ==
  [sources |-> <<>>, lua_tables |-> <<>>, lua_functions |-> <<>>,
   asset_types |-> <<>>, asset_fields |-> <<>>,
   recipes |-> <<>>, fu_research |-> <<>>, fu_extraction |-> <<>>,
   search_index |-> <<>>,
   seq |-> [sources |-> 0, lua_tables |-> 0, lua_functions |-> 0,
            asset_types |-> 0, asset_fields |-> 0,
            recipes |-> 0, fu_research |-> 0, fu_extraction |-> 0]]

DbIdle == db = EmptyDb /\ storeRuns = <<>>

FieldsIdle ==
  /\ cppCalls = <<>>
  /\ pattern = 0
  /\ callIdx = 0
  /\ fields = <<>>
  /\ seen = {}

FuIdle ==
  /\ fuBase = EmptyDb
  /\ fuBatch = 0
  /\ fuWrites = 0
  /\ txnStart = EmptyDb
  /\ fupc = "idle"

(***************************************************************************)
(* stripJsonComments (extract-fu.ts 25-67), one action per branch of the   *)
(* body of its while loop.                                                 *)
(***************************************************************************)
\* text[k] of the code, k 0-based
At(t, k) == t[k + 1]

\* a variant of the line comment loop that does not move the index
SkipLineStays(t, k) == k

\* while (i < text.length && text[i] !== "\n") i++;
RECURSIVE SkipLine(_, _)
SkipLine(t, k) ==
  IF k < Len(t) /\ At(t, k) # NL THEN SkipLine(t, k + 1) ELSE k

\* a variant that ends a block comment at the first star
RECURSIVE SkipBlockAtStar(_, _)
SkipBlockAtStar(t, k) ==
  IF k + 1 < Len(t) /\ At(t, k) # ST THEN SkipBlockAtStar(t, k + 1) ELSE k

\* while (i + 1 < text.length && !(text[i] === "*" && text[i + 1] === "/")) i++;
RECURSIVE SkipBlock(_, _)
SkipBlock(t, k) ==
  IF k + 1 < Len(t) /\ ~(At(t, k) = ST /\ At(t, k + 1) = SL)
  THEN SkipBlock(t, k + 1) ELSE k

StripInit ==
  /\ stripCalls = <<>>
  /\ text \in StripInputs
  /\ i = 0
  /\ result = <<>>
  /\ inString = FALSE
  /\ stringChar = ""

\* a variant that does not skip the escaped character
StripEscapeOneChar ==
  /\ i < Len(text)
  /\ inString
  /\ At(text, i) = BS /\ i + 1 < Len(text)
  /\ result' = Append(result, At(text, i))
  /\ i' = i + 1
  /\ UNCHANGED <<text, inString, stringChar>>
  /\ UNCHANGED nonStripVars

StripEscape ==
  /\ i < Len(text)
  /\ inString
  /\ At(text, i) = BS /\ i + 1 < Len(text)
  /\ result' = result \o <<At(text, i), At(text, i + 1)>>
  /\ i' = i + 2
  /\ UNCHANGED <<text, inString, stringChar>>
  /\ UNCHANGED nonStripVars

StripStringChar ==
  /\ i < Len(text)
  /\ inString
  /\ ~(At(text, i) = BS /\ i + 1 < Len(text))
  /\ inString' = (At(text, i) # stringChar)
  /\ result' = Append(result, At(text, i))
  /\ i' = i + 1
  /\ UNCHANGED <<text, stringChar>>
  /\ UNCHANGED nonStripVars

StripOpenString ==
  /\ i < Len(text)
  /\ ~inString
  /\ At(text, i) \in {DQ, SQ}
  /\ inString' = TRUE
  /\ stringChar' = At(text, i)
  /\ result' = Append(result, At(text, i))
  /\ i' = i + 1
  /\ UNCHANGED text
  /\ UNCHANGED nonStripVars

IsLineOpen(t, k) == At(t, k) = SL /\ k + 1 < Len(t) /\ At(t, k + 1) = SL
IsBlockOpen(t, k) == At(t, k) = SL /\ k + 1 < Len(t) /\ At(t, k + 1) = ST

StripLineComment ==
  /\ i < Len(text)
  /\ ~inString
  /\ At(text, i) \notin {DQ, SQ}
  /\ IsLineOpen(text, i)
  /\ i' = SkipLine(text, i)
  /\ UNCHANGED <<text, result, inString, stringChar>>
  /\ UNCHANGED nonStripVars

StripBlockComment ==
  /\ i < Len(text)
  /\ ~inString
  /\ At(text, i) \notin {DQ, SQ}
  /\ ~IsLineOpen(text, i)
  /\ IsBlockOpen(text, i)
  /\ i' = SkipBlock(text, i + 2) + 2
  /\ UNCHANGED <<text, result, inString, stringChar>>
  /\ UNCHANGED nonStripVars

\* a variant that drops a slash that opens no comment
StripPlainCharDropSlash ==
  /\ i < Len(text)
  /\ ~inString
  /\ At(text, i) \notin {DQ, SQ}
  /\ ~IsLineOpen(text, i)
  /\ ~IsBlockOpen(text, i)
  /\ result' = IF At(text, i) = SL THEN result ELSE Append(result, At(text, i))
  /\ i' = i + 1
  /\ UNCHANGED <<text, inString, stringChar>>
  /\ UNCHANGED nonStripVars

\* a variant that drops a plain character other than a slash or a star
StripPlainCharDropOther ==
  /\ i < Len(text)
  /\ ~inString
  /\ At(text, i) \notin {DQ, SQ}
  /\ ~IsLineOpen(text, i)
  /\ ~IsBlockOpen(text, i)
  /\ result' = IF At(text, i) = OC THEN result ELSE Append(result, At(text, i))
  /\ i' = i + 1
  /\ UNCHANGED <<text, inString, stringChar>>
  /\ UNCHANGED nonStripVars

StripPlainChar ==
  /\ i < Len(text)
  /\ ~inString
  /\ At(text, i) \notin {DQ, SQ}
  /\ ~IsLineOpen(text, i)
  /\ ~IsBlockOpen(text, i)
  /\ result' = Append(result, At(text, i))
  /\ i' = i + 1
  /\ UNCHANGED <<text, inString, stringChar>>
  /\ UNCHANGED nonStripVars

\* the loop has ended and result is what the function returns
StripDone == i >= Len(text)

StripNext ==
  \/ StripEscape
  \/ StripStringChar
  \/ StripOpenString
  \/ StripLineComment
  \/ StripBlockComment
  \/ StripPlainChar

SpecStripInit == StripInit /\ ResearchIdle /\ FieldsIdle /\ FuIdle /\ RecipeIdle /\ SigIdle /\ LuaIdle /\ DbIdle /\ TablesIdle

SpecStrip == SpecStripInit /\ [][StripNext]_vars

(***************************************************************************)
(* What the specification says the sanitizer does, stated on whole texts:  *)
(* every position of a text is part of a string literal ("S"), part of a   *)
(* comment ("C") or plain ("P").  Positions are 1-based here.              *)
(***************************************************************************)
Min(S) == CHOOSE m \in S : \A n \in S : m <= n

\* the number of consecutive backslashes that end at position j, after lo
RECURSIVE BackslashRun(_, _, _)
BackslashRun(s, j, lo) ==
  IF j > lo /\ s[j] = BS THEN 1 + BackslashRun(s, j - 1, lo) ELSE 0

\* position j of the literal opened at k is escaped by a backslash before it
Escaped(s, k, j) == BackslashRun(s, j - 1, k) % 2 = 1

\* last position of the literal opened at k: the first following unescaped
\* occurrence of the same quote, the end of the text when there is none
LiteralEnd(s, k) ==
  LET close == {j \in (k + 1)..Len(s) : s[j] = s[k] /\ ~Escaped(s, k, j)}
  IN  IF close = {} THEN Len(s) ELSE Min(close)

\* last position of the line comment opened at k: just before the next newline
LineCommentEnd(s, k) ==
  LET nl == {j \in k..Len(s) : s[j] = NL}
  IN  IF nl = {} THEN Len(s) ELSE Min(nl) - 1

\* last position of the block comment opened at k: the slash of the next */
BlockCommentEnd(s, k) ==
  LET close == {j \in (k + 2)..(Len(s) - 1) : s[j] = ST /\ s[j + 1] = SL}
  IN  IF close = {} THEN Len(s) ELSE Min(close) + 1

Fill(n, v) == [j \in 1..n |-> v]

RECURSIVE RefKinds(_, _)
RefKinds(s, k) ==
  IF k > Len(s) THEN <<>>
  ELSE IF s[k] \in {DQ, SQ}
    THEN LET e == LiteralEnd(s, k) IN Fill(e - k + 1, "S") \o RefKinds(s, e + 1)
  ELSE IF s[k] = SL /\ k < Len(s) /\ s[k + 1] = SL
    THEN LET e == LineCommentEnd(s, k) IN Fill(e - k + 1, "C") \o RefKinds(s, e + 1)
  ELSE IF s[k] = SL /\ k < Len(s) /\ s[k + 1] = ST
    THEN LET e == BlockCommentEnd(s, k) IN Fill(e - k + 1, "C") \o RefKinds(s, e + 1)
  ELSE <<"P">> \o RefKinds(s, k + 1)

\* the string literals of a text, in order
RECURSIVE RefStringLits(_, _)
RefStringLits(s, k) ==
  IF k > Len(s) THEN <<>>
  ELSE IF s[k] \in {DQ, SQ}
    THEN LET e == LiteralEnd(s, k) IN <<SubSeq(s, k, e)>> \o RefStringLits(s, e + 1)
  ELSE IF s[k] = SL /\ k < Len(s) /\ s[k + 1] = SL
    THEN RefStringLits(s, LineCommentEnd(s, k) + 1)
  ELSE IF s[k] = SL /\ k < Len(s) /\ s[k + 1] = ST
    THEN RefStringLits(s, BlockCommentEnd(s, k) + 1)
  ELSE RefStringLits(s, k + 1)

RECURSIVE Keep(_, _, _)
Keep(s, kinds, k) ==
  IF k > Len(s) THEN <<>>
  ELSE (IF kinds[k] = "C" THEN <<>> ELSE <<s[k]>>) \o Keep(s, kinds, k + 1)

\* the text with exactly its comments removed
RefStrip(s) == Keep(s, RefKinds(s, 1), 1)

HasComment(s) == \E k \in 1..Len(s) : RefKinds(s, 1)[k] = "C"

\* C1: a text with no comment (no // and no /* outside a string literal) is
\* returned by stripJsonComments unchanged, character for character.
C1_NoCommentIdentity ==
  (StripDone /\ ~HasComment(text)) => result = text

\* C1 witness: a comment-free text holding a slash has been returned.
C1_Witness ==
  /\ StripDone
  /\ ~HasComment(text)
  /\ Len(text) >= 3
  /\ \E k \in 1..Len(text) : text[k] = SL
  /\ result = text

\* C2: the string literals of the input (opening quote to the first following
\* unescaped same quote, a backslash escaping the next character) are, unchanged
\* and in order, the string literals of the output, whatever //, /*, */ or
\* escaped quote they hold; {"a":"http://x"} is returned unchanged.
C2_StringsUntouched ==
  StripDone =>
    /\ RefStringLits(result, 1) = RefStringLits(text, 1)
    /\ (text = ExampleText => result = ExampleText)

\* C2 witness: the example text, whose second literal holds //, was returned.
C2_Witness ==
  /\ StripDone
  /\ text = ExampleText
  /\ RefStringLits(result, 1) = <<<<DQ, "a", DQ>>, SubSeq(ExampleText, 6, 15)>>

\* C3: the output is the input with exactly the comments removed (a line
\* comment up to, not including, the next newline; a block comment through the
\* next */ or the end of the input); every run ends with a result.
C3_ExactlyCommentsRemoved ==
  /\ StripDone => result = RefStrip(text)
  /\ ~StripDone => ENABLED StripNext

\* C3 witness: a text with an unterminated block comment after other text.
C3_Witness ==
  /\ StripDone
  /\ \E k \in 2..(Len(text) - 1) :
       /\ text[k] = SL /\ text[k + 1] = ST
       /\ RefKinds(text, 1)[k] = "C"
       /\ BlockCommentEnd(text, k) = Len(text)
       /\ text[Len(text)] # SL
       /\ result = SubSeq(text, 1, k - 1)
(***************************************************************************)
(* JavaScript values, as JSON.parse returns them and as the extractors     *)
(* read them.  An object is the sequence of its entries in key order.      *)
(***************************************************************************)
Undef == [t |-> "undefined"]
Null == [t |-> "null"]
Thrown == [t |-> "throw"]
Num(n) == [t |-> "number", v |-> n]
Str(c) == [t |-> "string", v |-> c]
Arr(q) == [t |-> "array", v |-> q]
Obj(q) == [t |-> "object", v |-> q]
Entry(k, v) == [k |-> k, v |-> v]

IsNullish(v) == v.t \in {"undefined", "null"}
IsThrown(v) == v.t = "throw"

\* !!v
Truthy(v) ==
  CASE v.t \in {"undefined", "null"} -> FALSE
    [] v.t = "number" -> v.v # 0
    [] v.t = "string" -> v.v # ""
    [] OTHER -> TRUE

\* v.k : a TypeError on undefined and null, undefined on a missing key
Get(v, k) ==
  IF IsNullish(v) THEN Thrown
  ELSE IF v.t = "object" /\ \E n \in 1..Len(v.v) : v.v[n].k = k
    THEN v.v[CHOOSE n \in 1..Len(v.v) : v.v[n].k = k].v
  ELSE Undef

\* a ?? b
Coalesce(a, b) == IF IsNullish(a) THEN b ELSE a

\* v?.[0]
OptFirst(v) ==
  IF IsNullish(v) THEN Undef
  ELSE IF v.t = "array" /\ Len(v.v) > 0 THEN v.v[1]
  ELSE IF v.t = "string" /\ v.v # "" THEN v
  ELSE Undef

(***************************************************************************)
(* readJsonFile (extract-fu.ts 69-77).  A file is unreadable, or holds     *)
(* text that JSON.parse rejects after the comments are stripped, or holds  *)
(* text that parses to a value.                                            *)
(***************************************************************************)
Unreadable == [readable |-> FALSE, valid |-> FALSE, value |-> Undef]
Invalid == [readable |-> TRUE, valid |-> FALSE, value |-> Undef]
Json(v) == [readable |-> TRUE, valid |-> TRUE, value |-> v]

\* fs.readFileSync, stripJsonComments, JSON.parse: the body of the try
ReadAndParse(f) ==
  IF ~f.readable THEN Thrown
  ELSE IF ~f.valid THEN Thrown
  ELSE f.value

\* a variant with no catch: the fault reaches the caller
ReadJsonFileNoCatch(f) == ReadAndParse(f)

ReadJsonFile(f) ==
  LET r == ReadAndParse(f) IN IF IsThrown(r) THEN Null ELSE r

(***************************************************************************)
(* extractRecipes (extract-fu.ts 117-146), one action per way through the  *)
(* body of its for loop.                                                   *)
(***************************************************************************)
\* Bound on the number of .recipe files of a run.
MaxFiles == 3

\* data.input.map((i) => ({ item: i.item, count: i.count ?? 1 }))
MapInputs(input) ==
  IF input.t # "array" THEN Thrown
  ELSE IF \E n \in 1..Len(input.v) : IsNullish(input.v[n]) THEN Thrown
  ELSE Arr([n \in 1..Len(input.v) |->
             [item |-> Get(input.v[n], "item"),
              count |-> Coalesce(Get(input.v[n], "count"), Num(1))]])

\* the object pushed at lines 135-142
RecipeOf(data) ==
  [outputItem |-> Get(Get(data, "output"), "item"),
   outputCount |-> Coalesce(Get(Get(data, "output"), "count"), Num(1)),
   station |-> Coalesce(OptFirst(Get(data, "groups")), Null),
   inputs |-> MapInputs(Get(data, "input")),
   groups |-> Coalesce(Get(data, "groups"), Arr(<<>>)),
   duration |-> Coalesce(Get(data, "duration"), Null)]

\* if (!data || !data.output || !data.input) continue;
SkipsNoData(data) ==
  \/ ~Truthy(data)
  \/ ~Truthy(Get(data, "output"))
  \/ ~Truthy(Get(data, "input"))

\* if (!data.output.item) continue;
SkipsNoItem(data) == ~Truthy(Get(Get(data, "output"), "item"))

GoodInput == Arr(<<Obj(<<Entry("item", Str("ore")), Entry("count", Num(2))>>),
                   Obj(<<Entry("item", Str("coal"))>>)>>)

RecipeFileKinds ==
  { Unreadable,
    Invalid,
    Json(Null),
    Json(Num(5)),
    Json(Obj(<<Entry("input", GoodInput)>>)),
    Json(Obj(<<Entry("output", Obj(<<Entry("item", Str("bar"))>>))>>)),
    Json(Obj(<<Entry("input", GoodInput), Entry("output", Obj(<<Entry("count", Num(3))>>))>>)),
    Json(Obj(<<Entry("input", GoodInput), Entry("output", Obj(<<Entry("item", Str(""))>>))>>)),
    Json(Obj(<<Entry("input", GoodInput), Entry("output", Str("bar"))>>)),
    Json(Obj(<<Entry("input", GoodInput),
               Entry("output", Obj(<<Entry("item", Str("bar")), Entry("count", Num(3))>>)),
               Entry("groups", Arr(<<Str("anvil"), Str("all")>>)),
               Entry("duration", Num(4))>>)),
    Json(Obj(<<Entry("input", Arr(<<>>)),
               Entry("output", Obj(<<Entry("item", Str("rod"))>>))>>)),
    Json(Obj(<<Entry("input", Obj(<<Entry("ore", Num(1))>>)),
               Entry("output", Obj(<<Entry("item", Str("bar"))>>))>>)),
    Json(Obj(<<Entry("input", Arr(<<Null>>)),
               Entry("output", Obj(<<Entry("item", Str("bar"))>>))>>)) }

RecipeInit ==
  /\ recipeFiles \in SeqsUpTo(RecipeFileKinds, MaxFiles)
  /\ fileIdx = 0
  /\ recipes = <<>>
  /\ rpc = "loop"

\* the file the loop is at, and what readJsonFile returns for it
CurrentData == ReadJsonFile(recipeFiles[fileIdx + 1])

InRecipeLoop == rpc = "loop" /\ fileIdx < Len(recipeFiles)

\* a variant that leaves the loop at the first file it skips
RecipeSkipNoItemBreak ==
  /\ InRecipeLoop
  /\ ~IsThrown(CurrentData)
  /\ ~SkipsNoData(CurrentData)
  /\ SkipsNoItem(CurrentData)
  /\ fileIdx' = Len(recipeFiles)
  /\ UNCHANGED <<recipeFiles, recipes, rpc>>
  /\ UNCHANGED nonRecipeVars

RecipeSkipNoData ==
  /\ InRecipeLoop
  /\ ~IsThrown(CurrentData)
  /\ SkipsNoData(CurrentData)
  /\ fileIdx' = fileIdx + 1
  /\ UNCHANGED <<recipeFiles, recipes, rpc>>
  /\ UNCHANGED nonRecipeVars

RecipeSkipNoItem ==
  /\ InRecipeLoop
  /\ ~IsThrown(CurrentData)
  /\ ~SkipsNoData(CurrentData)
  /\ SkipsNoItem(CurrentData)
  /\ fileIdx' = fileIdx + 1
  /\ UNCHANGED <<recipeFiles, recipes, rpc>>
  /\ UNCHANGED nonRecipeVars

RecipePush ==
  /\ InRecipeLoop
  /\ ~IsThrown(CurrentData)
  /\ ~SkipsNoData(CurrentData)
  /\ ~SkipsNoItem(CurrentData)
  /\ ~IsThrown(RecipeOf(CurrentData).inputs)
  /\ recipes' = Append(recipes, RecipeOf(CurrentData))
  /\ fileIdx' = fileIdx + 1
  /\ UNCHANGED <<recipeFiles, rpc>>
  /\ UNCHANGED nonRecipeVars

\* a fault nothing in extractRecipes catches: one that leaves readJsonFile, or
\* the TypeError of data.input.map
RecipeStepThrows(data) ==
  IF IsThrown(data) THEN TRUE
  ELSE /\ ~SkipsNoData(data)
       /\ ~SkipsNoItem(data)
       /\ IsThrown(RecipeOf(data).inputs)

RecipeThrows ==
  /\ InRecipeLoop
  /\ RecipeStepThrows(CurrentData)
  /\ rpc' = "thrown"
  /\ UNCHANGED <<recipeFiles, fileIdx, recipes>>
  /\ UNCHANGED nonRecipeVars

RecipeReturn ==
  /\ rpc = "loop"
  /\ fileIdx = Len(recipeFiles)
  /\ rpc' = "returned"
  /\ UNCHANGED <<recipeFiles, fileIdx, recipes>>
  /\ UNCHANGED nonRecipeVars

RecipeNext ==
  \/ RecipeSkipNoData
  \/ RecipeSkipNoItem
  \/ RecipePush
  \/ RecipeThrows
  \/ RecipeReturn

SpecRecipesInit == RecipeInit /\ ResearchIdle /\ FieldsIdle /\ FuIdle /\ StripIdle /\ SigIdle /\ LuaIdle /\ DbIdle /\ TablesIdle

SpecRecipes == SpecRecipesInit /\ [][RecipeNext]_vars
\* the recipe files whose parsed content has everything lines 132-133 ask for
HasOutputItem(f) ==
  /\ f.readable /\ f.valid
  /\ f.value.t = "object"
  /\ Truthy(Get(f.value, "output"))
  /\ Get(f.value, "output").t = "object"
  /\ Truthy(Get(Get(f.value, "output"), "item"))

WellFormedRecipe(f) ==
  /\ HasOutputItem(f)
  /\ Get(f.value, "input").t = "array"
  /\ \A n \in 1..Len(Get(f.value, "input").v) : Get(f.value, "input").v[n].t = "object"

\* the output items of the well-formed files among the first n, in file order
RECURSIVE ExpectedItems(_, _)
ExpectedItems(files, n) ==
  IF n = 0 THEN <<>>
  ELSE ExpectedItems(files, n - 1) \o
       (IF WellFormedRecipe(files[n])
        THEN <<Get(Get(files[n].value, "output"), "item")>> ELSE <<>>)

\* C4: readJsonFile never throws: for a file that cannot be read or whose
\* stripped content is not valid JSON it returns null, and extractRecipes
\* goes on to the next file (it is never such a file that ends the run).
C4_ReadJsonFileNeverThrows ==
  /\ \A n \in 1..Len(recipeFiles) :
       /\ ~IsThrown(ReadJsonFile(recipeFiles[n]))
       /\ (~recipeFiles[n].readable \/ ~recipeFiles[n].valid)
            => ReadJsonFile(recipeFiles[n]) = Null
  /\ (rpc = "thrown" =>
        recipeFiles[fileIdx + 1].readable /\ recipeFiles[fileIdx + 1].valid)
  /\ (rpc = "returned" => fileIdx = Len(recipeFiles))

\* C4 witness: a run that met an unreadable and an unparsable file and still
\* returned the recipe of the file after them.
C4_Witness ==
  /\ rpc = "returned"
  /\ Len(recipeFiles) = 3
  /\ recipeFiles[1] = Unreadable
  /\ recipeFiles[2] = Invalid
  /\ Len(recipes) = 1

\* C10: a recipe file with no output.item contributes no recipe, and the
\* files after it are still processed and contribute theirs: the recipes
\* pushed are those of the usable files consumed so far, in order, and the
\* loop returns only after the last file.
C10_MissingOutputItemSkipped ==
  /\ rpc \in {"loop", "returned"} =>
       /\ Len(recipes) = Len(ExpectedItems(recipeFiles, fileIdx))
       /\ \A n \in 1..Len(recipes) :
            recipes[n].outputItem = ExpectedItems(recipeFiles, fileIdx)[n]
  /\ \A n \in 1..Len(recipes) : Truthy(recipes[n].outputItem)
  /\ (rpc = "returned" => fileIdx = Len(recipeFiles))

\* C10 witness: the first file has an output without item, the second is a
\* full recipe, and the run returned the second file's recipe alone.
C10_Witness ==
  /\ rpc = "returned"
  /\ Len(recipeFiles) >= 2
  /\ recipeFiles[1].readable /\ recipeFiles[1].valid
  /\ Truthy(Get(recipeFiles[1].value, "output"))
  /\ Truthy(Get(recipeFiles[1].value, "input"))
  /\ ~HasOutputItem(recipeFiles[1])
  /\ WellFormedRecipe(recipeFiles[2])
  /\ Len(recipes) >= 1
  /\ recipes[1].outputItem = Get(Get(recipeFiles[2].value, "output"), "item")
(***************************************************************************)
(* The heading parser of extract-lua-docs.ts: parseSignatureLine (89-114), *)
(* parseParameters (116-135) and the tests parseMarkdownFile makes on a    *)
(* line (147-163).  The regular expressions are matched on the characters  *)
(* of the line, left to right, as the regex engine does; positions are     *)
(* 1-based and Ch gives "" past the end.                                   *)
(***************************************************************************)
\* the backtick, which a TLA+ string cannot hold
BT == "BT"

Letters ==
  {"a", "b", "c", "d", "e", "f", "g", "h", "i", "j", "k", "l", "m",
   "n", "o", "p", "q", "r", "s", "t", "u", "v", "w", "x", "y", "z",
   "A", "B", "C", "D", "E", "F", "G", "H", "I", "J", "K", "L", "M",
   "N", "O", "P", "Q", "R", "S", "T", "U", "V", "W", "X", "Y", "Z"}
Digits == {"0", "1", "2", "3", "4", "5", "6", "7", "8", "9"}

\* the word and white-space classes of the patterns
IsWord(c) == c \in Letters \cup Digits \cup {"_"}
IsSpace(c) == c \in {" ", "\t", "\r", "\n", "\f"}

Ch(s, p) == IF p \in 1..Len(s) THEN s[p] ELSE ""

\* the position after the longest run of characters of a class from p on
RECURSIVE SkipSpace(_, _)
SkipSpace(s, p) == IF IsSpace(Ch(s, p)) THEN SkipSpace(s, p + 1) ELSE p

RECURSIVE SkipWord(_, _)
SkipWord(s, p) == IF IsWord(Ch(s, p)) THEN SkipWord(s, p + 1) ELSE p

RECURSIVE SkipChar(_, _, _)
SkipChar(s, p, c) == IF Ch(s, p) = c THEN SkipChar(s, p + 1, c) ELSE p

\* the position after the longest run of characters other than c
RECURSIVE SkipNot(_, _, _)
SkipNot(s, p, c) ==
  IF p <= Len(s) /\ s[p] # c THEN SkipNot(s, p + 1, c) ELSE p

Includes(s, c) == \E p \in 1..Len(s) : s[p] = c

\* line.startsWith("###") || line.startsWith("####")
StartsWithHashes(s) == Len(s) >= 3 /\ s[1] = "#" /\ s[2] = "#" /\ s[3] = "#"

\* s.trim()
IsBlank(s) == \A p \in 1..Len(s) : IsSpace(s[p])

NoMatch == [ok |-> FALSE]

\* the tail of both heading patterns from position p: word, dot, word, an
\* opening parenthesis, anything but a closing one, the closing one, white
\* space to the end of the line
MatchNameAndParams(s, p, returnType) ==
  LET q1 == SkipWord(s, p)
      q2 == SkipWord(s, q1 + 1)
      q3 == SkipNot(s, q2 + 1, ")")
  IN  IF /\ q1 > p /\ Ch(s, q1) = "."
         /\ q2 > q1 + 1 /\ Ch(s, q2) = "("
         /\ Ch(s, q3) = ")"
         /\ SkipSpace(s, q3 + 1) = Len(s) + 1
      THEN [ok |-> TRUE,
            returnType |-> returnType,
            tableName |-> SubSeq(s, p, q1 - 1),
            functionName |-> SubSeq(s, q1 + 1, q2 - 1),
            rawParams |-> SubSeq(s, q2 + 1, q3 - 1)]
      ELSE NoMatch

\* three or four hashes then white space: the position after them, 0 when
\* the line does not start so
AfterHashes(s) ==
  LET h == SkipChar(s, 1, "#")
      w == SkipSpace(s, h)
  IN  IF h \in {4, 5} /\ w > h THEN w ELSE 0

\* the pattern of line 92: hashes, a backtick-quoted return type, the tail
MatchWithReturn(s) ==
  LET a == AfterHashes(s)
      b == SkipNot(s, a + 1, BT)
      c == SkipSpace(s, b + 1)
  IN  IF a > 0 /\ Ch(s, a) = BT /\ b > a + 1 /\ Ch(s, b) = BT /\ c > b + 1
      THEN MatchNameAndParams(s, c, SubSeq(s, a + 1, b - 1))
      ELSE NoMatch

\* the pattern of line 103: hashes, the tail
MatchNoReturn(s) ==
  LET a == AfterHashes(s)
  IN  IF a > 0 THEN MatchNameAndParams(s, a, <<"v", "o", "i", "d">>) ELSE NoMatch

parseSignatureLine(s) ==
  IF MatchWithReturn(s).ok THEN MatchWithReturn(s) ELSE MatchNoReturn(s)

\* a variant that never sees the bracket
MatchParamAtNoBracket(s, p) ==
  LET a == SkipSpace(s, p)
      b == SkipNot(s, a + 1, BT)
      c == SkipSpace(s, b + 1)
      d == SkipWord(s, c)
      e == SkipSpace(s, d)
  IN  IF Ch(s, a) = BT /\ b > a + 1 /\ Ch(s, b) = BT /\ c > b + 1 /\ d > c
      THEN [ok |-> TRUE,
            end |-> IF Ch(s, e) = "]" THEN e + 1 ELSE e,
            param |-> [name |-> SubSeq(s, c, d - 1),
                       type |-> SubSeq(s, a + 1, b - 1),
                       optional |-> FALSE]]
      ELSE NoMatch

\* paramRegex (line 123) tried at position p: an optional bracket, a
\* backtick-quoted type, a name, an optional closing bracket
MatchParamAt(s, p) ==
  LET bracket == Ch(s, p) = "["
      a == SkipSpace(s, IF bracket THEN p + 1 ELSE p)
      b == SkipNot(s, a + 1, BT)
      c == SkipSpace(s, b + 1)
      d == SkipWord(s, c)
      e == SkipSpace(s, d)
  IN  IF Ch(s, a) = BT /\ b > a + 1 /\ Ch(s, b) = BT /\ c > b + 1 /\ d > c
      THEN [ok |-> TRUE,
            end |-> IF Ch(s, e) = "]" THEN e + 1 ELSE e,
            param |-> [name |-> SubSeq(s, c, d - 1),
                       type |-> SubSeq(s, a + 1, b - 1),
                       optional |-> bracket]]
      ELSE NoMatch

\* while ((match = paramRegex.exec(rawParams)) !== null) params.push(...)
RECURSIVE ExecParams(_, _)
ExecParams(s, p) ==
  IF p > Len(s) THEN <<>>
  ELSE IF MatchParamAt(s, p).ok
    THEN <<MatchParamAt(s, p).param>> \o ExecParams(s, MatchParamAt(s, p).end)
  ELSE ExecParams(s, p + 1)

parseParameters(rawParams) ==
  IF IsBlank(rawParams) THEN <<>> ELSE ExecParams(rawParams, 1)
(***************************************************************************)
(* Headings as they are written in the documentation: hashes, a return     *)
(* type (<<>> when none is declared), table.function and the parameters,   *)
(* each with or without backticks around its type and with its own         *)
(* brackets, opening a bracket group, closing one, or with none.           *)
(***************************************************************************)
\* Bound on the number of parameters of a generated heading.
MaxParams == 2

Rep(n, c) == [j \in 1..n |-> c]

RenderParam(pm) ==
  (IF pm.bracket \in {"own", "open"} THEN <<"[">> ELSE <<>>)
  \o (IF pm.ticks THEN <<BT>> \o pm.type \o <<BT>> ELSE pm.type)
  \o <<" ">> \o pm.name
  \o (IF pm.bracket \in {"own", "close"} THEN <<"]">> ELSE <<>>)

RECURSIVE JoinParams(_, _)
JoinParams(ps, k) ==
  IF k > Len(ps) THEN <<>>
  ELSE (IF k > 1 THEN <<",", " ">> ELSE <<>>) \o RenderParam(ps[k]) \o JoinParams(ps, k + 1)

RenderHeading(h) ==
  Rep(h.hashes, "#") \o <<" ">>
  \o (IF h.ret # <<>> THEN <<BT>> \o h.ret \o <<BT, " ">> ELSE <<>>)
  \o h.table \o <<".">> \o h.fn
  \o <<"(">> \o JoinParams(h.params, 1) \o <<")">>

ParamNames == <<"a", "b", "c", "d">>
ParamShapes == [bracket : {"none", "own", "open", "close"}, ticks : BOOLEAN]

NamedParams(shapes) ==
  [k \in 1..Len(shapes) |->
     [type |-> <<"S">>, name |-> <<ParamNames[k]>>,
      bracket |-> shapes[k].bracket, ticks |-> shapes[k].ticks]]

\* world.spawnItem of the specification's example, the parameter types with
\* backticks (as the documentation writes them) or without
SpawnItemHeading(hashes, ticks) ==
  [hashes |-> hashes,
   ret |-> <<"E", "n", "t", "i", "t", "y", "I", "d">>,
   table |-> <<"w", "o", "r", "l", "d">>,
   fn |-> <<"s", "p", "a", "w", "n", "I", "t", "e", "m">>,
   params |->
     <<[type |-> <<"S", "t", "r", "i", "n", "g">>,
        name |-> <<"i", "t", "e", "m", "N", "a", "m", "e">>,
        bracket |-> "own", ticks |-> ticks],
       [type |-> <<"V", "e", "c", "2", "F">>,
        name |-> <<"p", "o", "s", "i", "t", "i", "o", "n">>,
        bracket |-> "none", ticks |-> ticks]>>]

Headings ==
  {[hashes |-> h, ret |-> r, table |-> <<"w">>, fn |-> <<"f">>, params |-> NamedParams(q)] :
      h \in 2..5, r \in {<<>>, <<"E">>}, q \in SeqsUpTo(ParamShapes, MaxParams)}
  \cup {SpawnItemHeading(h, t) : h \in {3, 4}, t \in BOOLEAN}

SigInit ==
  /\ sigHeading \in Headings
  /\ sigLine = RenderHeading(sigHeading)
  /\ sigOut = [st |-> "pending"]

\* if (!line.startsWith("###") && !line.startsWith("####")) { i++; continue; }
SigSkipNotHeading ==
  /\ sigOut.st = "pending"
  /\ ~StartsWithHashes(sigLine)
  /\ sigOut' = [st |-> "skipped"]
  /\ UNCHANGED <<sigHeading, sigLine>>
  /\ UNCHANGED nonSigVars

\* if (!line.includes(backtick) || !line.includes("(")) { i++; continue; }
SigSkipNotCandidate ==
  /\ sigOut.st = "pending"
  /\ StartsWithHashes(sigLine)
  /\ ~Includes(sigLine, BT) \/ ~Includes(sigLine, "(")
  /\ sigOut' = [st |-> "skipped"]
  /\ UNCHANGED <<sigHeading, sigLine>>
  /\ UNCHANGED nonSigVars

\* if (!parsed) { i++; continue; }
SigSkipNoMatch ==
  /\ sigOut.st = "pending"
  /\ StartsWithHashes(sigLine)
  /\ Includes(sigLine, BT) /\ Includes(sigLine, "(")
  /\ ~parseSignatureLine(sigLine).ok
  /\ sigOut' = [st |-> "skipped"]
  /\ UNCHANGED <<sigHeading, sigLine>>
  /\ UNCHANGED nonSigVars

\* functions.push({ tableName, functionName, returnType, parameters, ... })
SigAccept ==
  /\ sigOut.st = "pending"
  /\ StartsWithHashes(sigLine)
  /\ Includes(sigLine, BT) /\ Includes(sigLine, "(")
  /\ parseSignatureLine(sigLine).ok
  /\ sigOut' = [st |-> "function",
                tableName |-> parseSignatureLine(sigLine).tableName,
                functionName |-> parseSignatureLine(sigLine).functionName,
                returnType |-> parseSignatureLine(sigLine).returnType,
                parameters |-> parseParameters(parseSignatureLine(sigLine).rawParams)]
  /\ UNCHANGED <<sigHeading, sigLine>>
  /\ UNCHANGED nonSigVars

SigNext ==
  \/ SigSkipNotHeading
  \/ SigSkipNotCandidate
  \/ SigSkipNoMatch
  \/ SigAccept

SpecSigInit == SigInit /\ ResearchIdle /\ FieldsIdle /\ FuIdle /\ StripIdle /\ RecipeIdle /\ LuaIdle /\ DbIdle /\ TablesIdle

SpecSig == SpecSigInit /\ [][SigNext]_vars

\* the number of bracket groups open before parameter k
RECURSIVE DepthBefore(_, _)
DepthBefore(ps, k) ==
  IF k = 1 THEN 0
  ELSE DepthBefore(ps, k - 1)
       + (IF ps[k - 1].bracket = "open" THEN 1 ELSE 0)
       - (IF ps[k - 1].bracket = "close" THEN 1 ELSE 0)

\* the brackets of a parameter list pair up
Balanced(ps) ==
  /\ \A k \in 1..Len(ps) :
       /\ ps[k].bracket \in {"own", "open"} => DepthBefore(ps, k) = 0
       /\ ps[k].bracket = "close" => DepthBefore(ps, k) = 1
  /\ DepthBefore(ps, Len(ps) + 1) = 0

\* parameter k is written inside [ ]
InsideBrackets(ps, k) == ps[k].bracket # "none" \/ DepthBefore(ps, k) = 1

\* a heading of depth 3 or 4 with a declared return type
TypedHeading(h) == h.hashes \in {3, 4} /\ h.ret # <<>> /\ Balanced(h.params)

YieldsRecord(h, out) ==
  /\ out.st = "function"
  /\ out.tableName = h.table
  /\ out.functionName = h.fn
  /\ out.returnType = h.ret

\* C5 as stated: every depth-3 or depth-4 heading with a return type yields a
\* record with its table, function and return type and its n parameters in
\* order, a parameter optional exactly when written inside [ ]; the heading
\* written with bare parameter types, world.spawnItem([String itemName],
\* Vec2F position), yields parameter 1 optional and parameter 2 required.
C5_AsStated ==
  (sigOut.st # "pending" /\ TypedHeading(sigHeading)) =>
    /\ YieldsRecord(sigHeading, sigOut)
    /\ Len(sigOut.parameters) = Len(sigHeading.params)
    /\ \A k \in 1..Len(sigHeading.params) :
         /\ sigOut.parameters[k].name = sigHeading.params[k].name
         /\ sigOut.parameters[k].optional = InsideBrackets(sigHeading.params, k)

\* C5 amended: the same for headings whose parameter types are quoted in
\* backticks, a parameter being optional exactly when an opening bracket
\* stands directly before its type; the spawnItem heading written with
\* quoted types yields parameter 1 optional and parameter 2 required.
C5_QuotedTypes ==
  (/\ sigOut.st # "pending"
   /\ TypedHeading(sigHeading)
   /\ \A k \in 1..Len(sigHeading.params) : sigHeading.params[k].ticks) =>
    /\ YieldsRecord(sigHeading, sigOut)
    /\ Len(sigOut.parameters) = Len(sigHeading.params)
    /\ \A k \in 1..Len(sigHeading.params) :
         /\ sigOut.parameters[k].name = sigHeading.params[k].name
         /\ sigOut.parameters[k].type = sigHeading.params[k].type
         /\ sigOut.parameters[k].optional = (sigHeading.params[k].bracket \in {"own", "open"})

\* C5 witness: the spawnItem heading with quoted types has been parsed into
\* world, spawnItem, EntityId, an optional itemName and a required position.
C5_Witness ==
  /\ sigHeading = SpawnItemHeading(4, TRUE)
  /\ sigOut.st = "function"
  /\ sigOut.tableName = <<"w", "o", "r", "l", "d">>
  /\ sigOut.returnType = <<"E", "n", "t", "i", "t", "y", "I", "d">>
  /\ Len(sigOut.parameters) = 2
  /\ sigOut.parameters[1].optional
  /\ ~sigOut.parameters[2].optional
(***************************************************************************)
(* parseMarkdownFile of extract-lua-docs.ts (137-216): the loop over the   *)
(* lines of one file, one iteration a step.                                *)
(***************************************************************************)
\* s.trim()
RECURSIVE TrimEnd(_)
TrimEnd(s) ==
  IF s # <<>> /\ IsSpace(s[Len(s)]) THEN TrimEnd(SubSeq(s, 1, Len(s) - 1)) ELSE s

Trim(s) == TrimEnd(SubSeq(s, SkipSpace(s, 1), Len(s)))

\* lines.join("\n")
RECURSIVE JoinLines(_)
JoinLines(ls) ==
  IF ls = <<>> THEN <<>>
  ELSE IF Len(ls) = 1 THEN ls[1]
  ELSE ls[1] \o <<"\n">> \o JoinLines(Tail(ls))

\* the test of line 174 on the lines after a heading
IsSignatureLike(l) == StartsWithHashes(l) /\ Includes(l, BT) /\ Includes(l, "(")

\* the tests of lines 148-163: the line is parsed into a function
IsFunctionHeading(l) == IsSignatureLike(l) /\ parseSignatureLine(l).ok

\* the inner loop (170-186) from the 0-based index i0: the description
\* lines and the index the loop leaves
RECURSIVE CollectDescription(_, _)
CollectDescription(lines, i0) ==
  IF i0 >= Len(lines) THEN [i |-> i0, descriptionLines |-> <<>>]
  ELSE IF IsSignatureLike(lines[i0 + 1]) THEN [i |-> i0, descriptionLines |-> <<>>]
  ELSE IF Trim(lines[i0 + 1]) = <<"-", "-", "-">>
    THEN [i |-> i0 + 1, descriptionLines |-> <<>>]
  ELSE [i |-> CollectDescription(lines, i0 + 1).i,
        descriptionLines |->
          <<lines[i0 + 1]>> \o CollectDescription(lines, i0 + 1).descriptionLines]

\* the clean signature string of lines 192-195
RECURSIVE ParamStr(_, _)
ParamStr(ps, k) ==
  IF k > Len(ps) THEN <<>>
  ELSE (IF k > 1 THEN <<",", " ">> ELSE <<>>)
       \o (IF ps[k].optional THEN <<"[">> ELSE <<>>)
       \o ps[k].type \o <<" ">> \o ps[k].name
       \o (IF ps[k].optional THEN <<"]">> ELSE <<>>)
       \o ParamStr(ps, k + 1)

SignatureOf(parsed, parameters) ==
  parsed.tableName \o <<".">> \o parsed.functionName
  \o <<"(">> \o ParamStr(parameters, 1) \o <<")">>

\* a variant that takes every entry after the first for an overload
IsOverloadAlways(fns, parsed) == Len(fns) > 0

\* lines 198-200: an overload of the entry parsed just before it in the file
IsOverload(fns, parsed) ==
  /\ Len(fns) > 0
  /\ fns[Len(fns)].tableName = parsed.tableName
  /\ fns[Len(fns)].functionName = parsed.functionName

\* the record pushed at lines 202-212 for the heading at 0-based index i0
ParsedFunction(lines, i0, fns, fileName) ==
  LET parsed == parseSignatureLine(lines[i0 + 1])
      parameters == parseParameters(parsed.rawParams)
  IN  [tableName |-> parsed.tableName,
       functionName |-> parsed.functionName,
       returnType |-> parsed.returnType,
       parameters |-> parameters,
       signature |-> SignatureOf(parsed, parameters),
       description |->
         Trim(JoinLines(CollectDescription(lines, i0 + 1).descriptionLines)),
       isOverload |-> IsOverload(fns, parsed),
       sourceFile |-> fileName,
       lineNumber |-> i0 + 1]
(***************************************************************************)
(* The knowledge store (schema.ts).  A table is the sequence of its rows   *)
(* in insertion order; db.seq holds the AUTOINCREMENT counters, so an id   *)
(* is never handed out twice.                                              *)
(***************************************************************************)
\* db.prepare("SELECT id FROM sources WHERE name = ?").get(name): 0 for none
SourceIdOf(d, name) ==
  LET hit == {n \in 1..Len(d.sources) : d.sources[n].name = name}
  IN  IF hit = {} THEN 0 ELSE d.sources[CHOOSE n \in hit : TRUE].id

\* a variant that overwrites the row of a known name, keeping its id
ReplaceSource(d, name, version, description, url) ==
  IF \E n \in 1..Len(d.sources) : d.sources[n].name = name
  THEN [d EXCEPT !.sources =
          [n \in 1..Len(@) |->
             IF @[n].name = name
             THEN [@[n] EXCEPT !.version = version, !.description = description,
                               !.url = url]
             ELSE @[n]]]
  ELSE [d EXCEPT !.sources = Append(@, [id |-> d.seq.sources + 1, name |-> name,
                                       version |-> version,
                                       description |-> description, url |-> url]),
                 !.seq.sources = @ + 1]

\* get-or-create of a source row by name (extract-lua-docs.ts 229-240)
GetOrCreateSource(d, name, version, description, url) ==
  IF SourceIdOf(d, name) # 0 THEN d
  ELSE [d EXCEPT !.sources = Append(@, [id |-> d.seq.sources + 1, name |-> name,
                                       version |-> version,
                                       description |-> description, url |-> url]),
                 !.seq.sources = @ + 1]

\* getTable.get(sourceId, tableName): 0 for none
TableIdOf(d, sourceId, name) ==
  LET hit == {n \in 1..Len(d.lua_tables) :
                d.lua_tables[n].source_id = sourceId /\ d.lua_tables[n].name = name}
  IN  IF hit = {} THEN 0 ELSE d.lua_tables[CHOOSE n \in hit : TRUE].id

\* a variant that inserts the table row whatever the store holds
InsertTablePlain(d, sourceId, name, description, context) ==
  [d EXCEPT !.lua_tables = Append(@, [id |-> d.seq.lua_tables + 1,
                                      source_id |-> sourceId, name |-> name,
                                      description |-> description,
                                      context |-> context]),
            !.seq.lua_tables = @ + 1]

\* INSERT OR IGNORE INTO lua_tables under UNIQUE(source_id, name)
InsertTable(d, sourceId, name, description, context) ==
  IF TableIdOf(d, sourceId, name) # 0 THEN d
  ELSE [d EXCEPT !.lua_tables = Append(@, [id |-> d.seq.lua_tables + 1,
                                           source_id |-> sourceId, name |-> name,
                                           description |-> description,
                                           context |-> context]),
                 !.seq.lua_tables = @ + 1]

\* a variant that keeps the rows the new one conflicts with
InsertFunctionPlain(d, row) ==
  [d EXCEPT !.lua_functions =
              Append(@, [row EXCEPT !.id = d.seq.lua_functions + 1]),
            !.seq.lua_functions = @ + 1]

\* INSERT OR REPLACE INTO lua_functions under UNIQUE(table_id, name): the
\* rows in conflict are deleted and the new row takes a fresh id
InsertFunction(d, row) ==
  [d EXCEPT !.lua_functions =
              Append(SelectSeq(@, LAMBDA r : ~(r.table_id = row.table_id /\ r.name = row.name)),
                     [row EXCEPT !.id = d.seq.lua_functions + 1]),
            !.seq.lua_functions = @ + 1]

\* INSERT INTO search_index: the rows are appended, nothing is replaced
RECURSIVE InsertSearchAll(_, _)
InsertSearchAll(d, rows) ==
  IF rows = <<>> THEN d
  ELSE InsertSearchAll([d EXCEPT !.search_index = Append(@, rows[1])], Tail(rows))
(***************************************************************************)
(* insertLuaData of extract-lua-docs.ts (220-361).                         *)
(***************************************************************************)
entity == <<"e", "n", "t", "i", "t", "y">>
player == <<"p", "l", "a", "y", "e", "r">>

\* TABLE_CONTEXTS[tableName] ?? "unknown" (36-85, 273), for the tables of
\* the documents below
TableContext(tableName) ==
  IF tableName = entity THEN "universal"
  ELSE IF tableName = player THEN "player"
  ELSE "unknown"

\* the keys of tableMap in the order Map keeps them: first insertion
RECURSIVE TableNames(_)
TableNames(fns) ==
  IF fns = <<>> THEN <<>>
  ELSE LET before == TableNames(SubSeq(fns, 1, Len(fns) - 1))
           name == fns[Len(fns)].tableName
       IN  IF \E n \in 1..Len(before) : before[n] = name
           THEN before ELSE Append(before, name)

\* tableMap.get(tableName)
FunctionsOfTable(fns, tableName) ==
  SelectSeq(fns, LAMBDA fn : fn.tableName = tableName)

OverloadLabel ==
  <<"\n", "\n", "*", "*", "O", "v", "e", "r", "l", "o", "a", "d", ":", "*", "*", "\n">>

\* a variant where an overload with as many parameters also takes over
MergeOverloadOnTie(existing, fn) ==
  [existing EXCEPT
     !.signature = @ \o <<"\n">> \o fn.signature,
     !.description = IF fn.description # <<>> THEN @ \o OverloadLabel \o fn.description ELSE @,
     !.parameters = IF Len(fn.parameters) >= Len(@) THEN fn.parameters ELSE @,
     !.returnType = IF Len(fn.parameters) >= Len(existing.parameters)
                    THEN fn.returnType ELSE @]

\* lines 288-297: the overload fn merged into the entry of its name
MergeOverload(existing, fn) ==
  [existing EXCEPT
     !.signature = @ \o <<"\n">> \o fn.signature,
     !.description = IF fn.description # <<>> THEN @ \o OverloadLabel \o fn.description ELSE @,
     !.parameters = IF Len(fn.parameters) > Len(@) THEN fn.parameters ELSE @,
     !.returnType = IF Len(fn.parameters) > Len(existing.parameters)
                    THEN fn.returnType ELSE @]

\* the position of a function name among the values of mergedFunctions
MergedIndex(merged, functionName) ==
  LET hit == {n \in 1..Len(merged) : merged[n].functionName = functionName}
  IN  IF hit = {} THEN 0 ELSE CHOOSE n \in hit : TRUE

\* a variant where an entry that is no overload is merged into the entry
\* of its name as well, instead of taking its place
RECURSIVE MergedFunctionsAlways(_, _)
MergedFunctionsAlways(fns, k) ==
  IF k = 0 THEN <<>>
  ELSE LET merged == MergedFunctionsAlways(fns, k - 1)
           fn == fns[k]
           j == MergedIndex(merged, fn.functionName)
       IN  IF j # 0
           THEN [merged EXCEPT ![j] = MergeOverload(merged[j], fn)]
           ELSE Append(merged, fn)

\* lines 284-301: the values of mergedFunctions after the first k functions
\* of a table; Map.set on a key it holds keeps the key's place
RECURSIVE MergedFunctions(_, _)
MergedFunctions(fns, k) ==
  IF k = 0 THEN <<>>
  ELSE LET merged == MergedFunctions(fns, k - 1)
           fn == fns[k]
           j == MergedIndex(merged, fn.functionName)
       IN  IF fn.isOverload /\ j # 0
           THEN [merged EXCEPT ![j] = MergeOverload(merged[j], fn)]
           ELSE IF j # 0 THEN [merged EXCEPT ![j] = fn]
           ELSE Append(merged, fn)

\* lines 304-333: the row written for a merged function.  No line of the
\* documents below holds a code fence, so codeBlockRegex finds no example
\* and the replace of line 321 removes nothing.
FunctionRow(tableId, fn) ==
  [id |-> 0,
   table_id |-> tableId,
   name |-> fn.functionName,
   signature |-> fn.signature,
   description |-> Trim(fn.description),
   return_type |-> fn.returnType,
   parameters |-> [k \in 1..Len(fn.parameters) |->
                     [name |-> fn.parameters[k].name, type |-> fn.parameters[k].type,
                      description |-> <<>>, optional |-> fn.parameters[k].optional]],
   examples |-> Null,
   notes |-> [sourceFile |-> fn.sourceFile, lineNumber |-> fn.lineNumber]]

RECURSIVE InsertFunctions(_, _, _)
InsertFunctions(d, tableId, merged) ==
  IF merged = <<>> THEN d
  ELSE InsertFunctions(InsertFunction(d, FunctionRow(tableId, merged[1])),
                       tableId, Tail(merged))

\* the body of the transaction (272-337) for the tables from position k on
RECURSIVE InsertTables(_, _, _, _)
InsertTables(d, sourceId, fns, k) ==
  IF k > Len(TableNames(fns)) THEN d
  ELSE LET tableName == TableNames(fns)[k]
           tfns == FunctionsOfTable(fns, tableName)
           d1 == InsertTable(d, sourceId, tableName,
                             [table |-> tableName, functions |-> Len(tfns),
                              context |-> TableContext(tableName)],
                             TableContext(tableName))
           tableId == TableIdOf(d1, sourceId, tableName)
       IN  IF tableId = 0 THEN InsertTables(d1, sourceId, fns, k + 1)
           ELSE InsertTables(InsertFunctions(d1, tableId, MergedFunctions(tfns, Len(tfns))),
                             sourceId, fns, k + 1)

\* the name of the table a function row belongs to
TableRowOf(d, tableId) ==
  d.lua_tables[CHOOSE n \in 1..Len(d.lua_tables) : d.lua_tables[n].id = tableId]

\* lines 343-357: a search row for every function of the source in the store
LuaSearchRows(d, sourceName) ==
  LET mine == SelectSeq(d.lua_functions,
                        LAMBDA r : TableRowOf(d, r.table_id).source_id = SourceIdOf(d, sourceName))
  IN  [n \in 1..Len(mine) |->
         [entity_type |-> "lua_function", entity_id |-> mine[n].id,
          name |-> TableRowOf(d, mine[n].table_id).name \o <<".">> \o mine[n].name,
          content |-> mine[n].description, source |-> sourceName]]

insertLuaData(d, allFunctions, isOpenStarboundExtension) ==
  LET sourceName == IF isOpenStarboundExtension THEN "openstarbound" ELSE "vanilla"
      d1 == IF isOpenStarboundExtension
            THEN GetOrCreateSource(d, sourceName, Null,
                   "OpenStarbound C++ source - authoritative asset schema definitions",
                   "https://github.com/OpenStarbound/OpenStarbound")
            ELSE GetOrCreateSource(d, sourceName, Str("1.4.4"), "Base Starbound game",
                   "https://starbounder.org/Modding:Portal")
      d2 == InsertTables(d1, SourceIdOf(d1, sourceName), allFunctions, 1)
  IN  InsertSearchAll(d2, LuaSearchRows(d2, sourceName))
(***************************************************************************)
(* main of extract-lua-docs.ts (365-455) on a documentation directory:     *)
(* the files of doc/lua are parsed in directory order, then those of       *)
(* doc/lua/openstarbound, and the functions of each are stored.            *)
(***************************************************************************)
\* Bound on the number of lines of a documentation directory.
MaxDocLines == 3

\* a signature heading as the documentation writes it: n quoted parameters
DocSignature(table, fn, ret, n) ==
  RenderHeading([hashes |-> 4, ret |-> ret, table |-> table, fn |-> fn,
                 params |-> NamedParams([k \in 1..n |-> [bracket |-> "none", ticks |-> TRUE]])])

\* the lines a file is made of: four signatures (three of entity.id, two of
\* them with one parameter), a line of text, a horizontal rule and a
\* heading with a backtick and a parenthesis that is no signature
DocLines ==
  {DocSignature(entity, <<"i", "d">>, <<"E">>, 1),
   DocSignature(entity, <<"i", "d">>, <<"V">>, 3),
   DocSignature(entity, <<"i", "d">>, <<"B">>, 1),
   DocSignature(player, <<"i", "d">>, <<"E">>, 0),
   <<"x">>,
   <<"-", "-", "-">>,
   <<"#", "#", "#", " ", BT, "x", BT, " ", "(">>}

\* content.split("\n") yields at least one line
DocFileLines == SeqsUpTo(DocLines, MaxDocLines) \ {<<>>}

\* the lines cut after line k: one file of doc/lua when nothing is left,
\* else two files, the second in doc/lua or in doc/lua/openstarbound
DocDirectory(lines, k, osb) ==
  IF k = Len(lines) THEN <<[osb |-> FALSE, lines |-> lines]>>
  ELSE <<[osb |-> FALSE, lines |-> SubSeq(lines, 1, k)],
         [osb |-> osb, lines |-> SubSeq(lines, k + 1, Len(lines))]>>

\* the outcome of the tests of lines 148-163 on each line, tabulated
StartsFunction == [l \in DocLines |-> IsFunctionHeading(l)]

LuaInit ==
  /\ \E lines \in DocFileLines, osb \in BOOLEAN :
       \E k \in 1..Len(lines) :
         /\ k = Len(lines) => ~osb
         /\ docFiles = DocDirectory(lines, k, osb)
  /\ docIdx = 0
  /\ lineIdx = 0
  /\ functions = <<>>
  /\ baseFunctions = <<>>
  /\ osbFunctions = <<>>
  /\ lpc = "parse"
  /\ db = EmptyDb

InFile == lpc = "parse" /\ docIdx < Len(docFiles)
CurrentLines == docFiles[docIdx + 1].lines

\* lines 148-163: a line that starts no function is passed over
LuaSkipLine ==
  /\ InFile
  /\ lineIdx < Len(CurrentLines)
  /\ ~StartsFunction[CurrentLines[lineIdx + 1]]
  /\ lineIdx' = lineIdx + 1
  /\ UNCHANGED <<docFiles, docIdx, functions, baseFunctions, osbFunctions, lpc, db>>
  /\ UNCHANGED nonLuaVars

\* lines 165-212: a signature heading, the description after it, the push
LuaPushFunction ==
  /\ InFile
  /\ lineIdx < Len(CurrentLines)
  /\ StartsFunction[CurrentLines[lineIdx + 1]]
  /\ functions' = Append(functions,
                         ParsedFunction(CurrentLines, lineIdx, functions, docIdx + 1))
  /\ lineIdx' = CollectDescription(CurrentLines, lineIdx + 1).i
  /\ UNCHANGED <<docFiles, docIdx, baseFunctions, osbFunctions, lpc, db>>
  /\ UNCHANGED nonLuaVars

\* line 215 and lines 394-400, 416-422 of main: the file's functions join
\* those of its directory
LuaFileDone ==
  /\ InFile
  /\ lineIdx >= Len(CurrentLines)
  /\ IF docFiles[docIdx + 1].osb
     THEN /\ osbFunctions' = osbFunctions \o functions
          /\ UNCHANGED baseFunctions
     ELSE /\ baseFunctions' = baseFunctions \o functions
          /\ UNCHANGED osbFunctions
  /\ docIdx' = docIdx + 1
  /\ lineIdx' = 0
  /\ functions' = <<>>
  /\ UNCHANGED <<docFiles, lpc, db>>
  /\ UNCHANGED nonLuaVars

\* lines 447-452 of main
InsertAll(d, base, osb) ==
  LET d1 == insertLuaData(d, base, FALSE)
  IN  IF Len(osb) > 0 THEN insertLuaData(d1, osb, TRUE) ELSE d1

LuaInsert ==
  /\ lpc = "parse"
  /\ docIdx = Len(docFiles)
  /\ db' = InsertAll(db, baseFunctions, osbFunctions)
  /\ lpc' = "done"
  /\ UNCHANGED <<docFiles, docIdx, lineIdx, functions, baseFunctions, osbFunctions>>
  /\ UNCHANGED nonLuaVars

LuaNext ==
  \/ LuaSkipLine
  \/ LuaPushFunction
  \/ LuaFileDone
  \/ LuaInsert

SpecLuaInit == LuaInit /\ ResearchIdle /\ FieldsIdle /\ FuIdle /\ storeRuns = <<>> /\ StripIdle /\ RecipeIdle /\ SigIdle /\ TablesIdle

SpecLua == SpecLuaInit /\ [][LuaNext]_vars

\* the signatures of file k, in line order, as the heading parser reads them
RECURSIVE FileSignatures(_, _)
FileSignatures(k, n) ==
  IF n = 0 THEN <<>>
  ELSE FileSignatures(k, n - 1) \o
       (IF StartsFunction[docFiles[k].lines[n]]
        THEN LET parsed == parseSignatureLine(docFiles[k].lines[n])
             IN  <<[file |-> k, line |-> n,
                    tableName |-> parsed.tableName,
                    functionName |-> parsed.functionName,
                    returnType |-> parsed.returnType,
                    parameters |-> parseParameters(parsed.rawParams)]>>
        ELSE <<>>)

\* the signatures of a directory (doc/lua or doc/lua/openstarbound), file
\* after file
RECURSIVE DirectorySignatures(_, _)
DirectorySignatures(osb, k) ==
  IF k = 0 THEN <<>>
  ELSE DirectorySignatures(osb, k - 1) \o
       (IF docFiles[k].osb = osb
        THEN FileSignatures(k, Len(docFiles[k].lines)) ELSE <<>>)

SameFunction(x, y) ==
  x.tableName = y.tableName /\ x.functionName = y.functionName

\* positions a..b of sigs are a maximal run of consecutive signatures of one
\* file with the same table and function name
IsRun(sigs, a, b) ==
  /\ a <= b
  /\ \A m \in a..b : sigs[m].file = sigs[a].file /\ SameFunction(sigs[m], sigs[a])
  /\ a > 1 => ~(sigs[a - 1].file = sigs[a].file /\ SameFunction(sigs[a - 1], sigs[a]))
  /\ b < Len(sigs) => ~(sigs[b + 1].file = sigs[a].file /\ SameFunction(sigs[b + 1], sigs[a]))

\* the overload of a run with the most parameters, the earliest on a tie
Canonical(sigs, a, b) ==
  sigs[CHOOSE j \in a..b :
         \A m \in a..b :
           \/ Len(sigs[m].parameters) < Len(sigs[j].parameters)
           \/ Len(sigs[m].parameters) = Len(sigs[j].parameters) /\ m >= j]

\* the function rows stored for a signature of a directory
StoredRows(osb, sig) ==
  LET sourceId == SourceIdOf(db, IF osb THEN "openstarbound" ELSE "vanilla")
      tableId == TableIdOf(db, sourceId, sig.tableName)
  IN  {n \in 1..Len(db.lua_functions) :
         /\ db.lua_functions[n].table_id = tableId
         /\ db.lua_functions[n].name = sig.functionName}

\* one row, with the parameter list and the return type of the signature
StoredAs(osb, sig) ==
  /\ Cardinality(StoredRows(osb, sig)) = 1
  /\ \A n \in StoredRows(osb, sig) :
       /\ db.lua_functions[n].return_type = sig.returnType
       /\ Len(db.lua_functions[n].parameters) = Len(sig.parameters)
       /\ \A k \in 1..Len(sig.parameters) :
            /\ db.lua_functions[n].parameters[k].name = sig.parameters[k].name
            /\ db.lua_functions[n].parameters[k].type = sig.parameters[k].type
            /\ db.lua_functions[n].parameters[k].optional = sig.parameters[k].optional

\* C6 as stated: after the run every run of consecutive same-named
\* signatures is stored as one record with the parameter list and return
\* type of its overload with the most parameters, the earliest on a tie.
C6_AsStated ==
  lpc = "done" =>
    \A osb \in BOOLEAN :
      LET sigs == DirectorySignatures(osb, Len(docFiles))
      IN  \A a \in 1..Len(sigs) : \A b \in a..Len(sigs) :
            IsRun(sigs, a, b) => StoredAs(osb, Canonical(sigs, a, b))

\* C6 amended: the same for every run that no signature of the same table
\* and function name follows in its directory; a 1-parameter signature
\* immediately followed by a same-named 3-parameter one, nothing of that
\* name after them, is stored as one record with 3 parameters.
C6_LastRunMerged ==
  lpc = "done" =>
    \A osb \in BOOLEAN :
      LET sigs == DirectorySignatures(osb, Len(docFiles))
      IN  \A a \in 1..Len(sigs) : \A b \in a..Len(sigs) :
            (/\ IsRun(sigs, a, b)
             /\ \A m \in (b + 1)..Len(sigs) : ~SameFunction(sigs[m], sigs[a]))
              => StoredAs(osb, Canonical(sigs, a, b))

\* C6 witness: a file of a 1-parameter entity.id followed at once by a
\* 3-parameter entity.id has been stored as one row with 3 parameters.
C6_Witness ==
  /\ lpc = "done"
  /\ docFiles = <<[osb |-> FALSE,
                   lines |-> <<DocSignature(entity, <<"i", "d">>, <<"E">>, 1),
                               DocSignature(entity, <<"i", "d">>, <<"V">>, 3)>>]>>
  /\ Len(db.lua_functions) = 1
  /\ Len(db.lua_functions[1].parameters) = 3
  /\ db.lua_functions[1].return_type = <<"V">>
(***************************************************************************)
(* The asset tables and insertExtractedData of extract-openstarbound.ts    *)
(* (291-380).  Asset type names and field paths are kept whole: the store  *)
(* step only compares them.                                                *)
(***************************************************************************)
\* getAssetType.get(sourceId, name): 0 for none
AssetTypeIdOf(d, sourceId, name) ==
  LET hit == {n \in 1..Len(d.asset_types) :
                d.asset_types[n].source_id = sourceId /\ d.asset_types[n].name = name}
  IN  IF hit = {} THEN 0 ELSE d.asset_types[CHOOSE n \in hit : TRUE].id

\* INSERT OR IGNORE INTO asset_types under UNIQUE(source_id, name)
InsertAssetType(d, sourceId, name, extension, description, basePath) ==
  IF AssetTypeIdOf(d, sourceId, name) # 0 THEN d
  ELSE [d EXCEPT !.asset_types =
                   Append(@, [id |-> d.seq.asset_types + 1, source_id |-> sourceId,
                              name |-> name, file_extension |-> extension,
                              description |-> description, base_path |-> basePath]),
                 !.seq.asset_types = @ + 1]

\* a variant that replaces the row in conflict, as INSERT OR REPLACE does
InsertFieldReplace(d, row) ==
  [d EXCEPT !.asset_fields =
              Append(SelectSeq(@, LAMBDA r : ~(r.asset_type_id = row.asset_type_id
                                               /\ r.field_path = row.field_path)),
                     [row EXCEPT !.id = d.seq.asset_fields + 1]),
            !.seq.asset_fields = @ + 1]

\* INSERT OR IGNORE INTO asset_fields under UNIQUE(asset_type_id, field_path)
InsertField(d, row) ==
  IF \E n \in 1..Len(d.asset_fields) :
       /\ d.asset_fields[n].asset_type_id = row.asset_type_id
       /\ d.asset_fields[n].field_path = row.field_path
  THEN d
  ELSE [d EXCEPT !.asset_fields = Append(@, [row EXCEPT !.id = d.seq.asset_fields + 1]),
                 !.seq.asset_fields = @ + 1]

\* DATABASE_TO_ASSET[fileName] (35-65), for the files of the inputs below
DatabaseToAsset(fileName) ==
  IF fileName = "StarTechDatabase.cpp"
    THEN [t |-> "object", assetType |-> "tech", extension |-> ".tech",
          description |-> "Tech definitions - player abilities like double jump, dash, sphere, etc."]
  ELSE IF fileName = "StarItemDatabase.cpp"
    THEN [t |-> "object", assetType |-> "item", extension |-> ".item",
          description |-> "Generic items - crafting materials, consumables, quest items. Also handles recipe files."]
  ELSE Undef

\* lines 340-349: the row written for an extracted field
FieldRow(assetTypeId, field) ==
  [id |-> 0,
   asset_type_id |-> assetTypeId,
   field_path |-> field.fieldName,
   type |-> field.type,
   description |-> [sourceFile |-> field.sourceFile, lineNumber |-> field.lineNumber,
                    optional |-> field.optional,
                    defaultValue |-> IF Truthy(field.defaultValue)
                                     THEN field.defaultValue ELSE Str("")],
   required |-> IF field.optional THEN 0 ELSE 1,
   default_value |-> field.defaultValue,
   enum_values |-> Null,
   examples |-> Null]

RECURSIVE InsertFields(_, _, _)
InsertFields(d, assetTypeId, fs) ==
  IF fs = <<>> THEN d
  ELSE InsertFields(InsertField(d, FieldRow(assetTypeId, fs[1])),
                    assetTypeId, Tail(fs))

\* the body of the transaction (327-356) for the files from position k on
RECURSIVE InsertDbFiles(_, _, _, _)
InsertDbFiles(d, sourceId, dbFiles, k) ==
  IF k > Len(dbFiles) THEN d
  ELSE LET mapping == DatabaseToAsset(dbFiles[k].fileName)
       IN  IF ~Truthy(mapping) THEN InsertDbFiles(d, sourceId, dbFiles, k + 1)
           ELSE LET d1 == InsertAssetType(d, sourceId, mapping.assetType,
                                          mapping.extension, mapping.description, "")
                    assetTypeId == AssetTypeIdOf(d1, sourceId, mapping.assetType)
                    d2 == InsertFields(d1, assetTypeId, dbFiles[k].fields)
                IN  InsertDbFiles(
                      InsertSearchAll(d2, <<[entity_type |-> "asset_type",
                                             entity_id |-> assetTypeId,
                                             name |-> mapping.assetType,
                                             content |-> mapping.description,
                                             source |-> "openstarbound"]>>),
                      sourceId, dbFiles, k + 1)

\* the asset type row of an id
AssetTypeRowOf(d, assetTypeId) ==
  d.asset_types[CHOOSE n \in 1..Len(d.asset_types) : d.asset_types[n].id = assetTypeId]

\* the name of the source of an id
SourceNameOf(d, sourceId) ==
  d.sources[CHOOSE n \in 1..Len(d.sources) : d.sources[n].id = sourceId].name

\* lines 362-376: a search row for every field of the source in the store
FieldSearchRows(d) ==
  LET mine == SelectSeq(d.asset_fields,
                LAMBDA r : SourceNameOf(d, AssetTypeRowOf(d, r.asset_type_id).source_id)
                           = "openstarbound")
  IN  [n \in 1..Len(mine) |->
         [entity_type |-> "asset_field", entity_id |-> mine[n].id,
          name |-> <<AssetTypeRowOf(d, mine[n].asset_type_id).name, ".", mine[n].field_path>>,
          content |-> mine[n].description, source |-> "openstarbound"]]

insertExtractedData(d, dbFiles) ==
  LET d1 == GetOrCreateSource(d, "openstarbound", Null,
              "OpenStarbound C++ source - authoritative asset schema definitions",
              "https://github.com/OpenStarbound/OpenStarbound")
      d2 == InsertDbFiles(d1, SourceIdOf(d1, "openstarbound"), dbFiles, 1)
  IN  InsertSearchAll(d2, FieldSearchRows(d2))
(***************************************************************************)
(* The seed script (db/seed): its two sources and, of its tables, types    *)
(* and rows, the tables entity and player with three of their functions,   *)
(* the vanilla type tech and the frackin-universe type activeitem with     *)
(* three of their fields; then its search rows for everything stored.      *)
(***************************************************************************)
\* insertLuaFunction (41-46): INSERT OR IGNORE under UNIQUE(table_id, name)
insertLuaFunction(d, tableId, name, signature, description, returnType) ==
  IF \E n \in 1..Len(d.lua_functions) :
       d.lua_functions[n].table_id = tableId /\ d.lua_functions[n].name = name
  THEN d
  ELSE [d EXCEPT !.lua_functions =
                   Append(@, [id |-> d.seq.lua_functions + 1, table_id |-> tableId,
                              name |-> name, signature |-> signature,
                              description |-> description, return_type |-> returnType,
                              parameters |-> <<>>, examples |-> Str("[]"),
                              notes |-> ""]),
                 !.seq.lua_functions = @ + 1]

\* insertAssetField (314-319) with the defaults of its last three parameters
SeedFieldRow(assetTypeId, fieldPath, type, description, required) ==
  [id |-> 0, asset_type_id |-> assetTypeId, field_path |-> fieldPath,
   type |-> type, description |-> description,
   required |-> IF required THEN 1 ELSE 0,
   default_value |-> Null, enum_values |-> Null, examples |-> Null]

\* lines 29-30, 129-141: the sources, tables and functions
SeedLua(d) ==
  LET d1 == GetOrCreateSource(d, "vanilla", Str("1.4.4"), "Base Starbound game",
                              "https://starbounder.org/Modding:Portal")
      d2 == GetOrCreateSource(d1, "frackin-universe", Str("6.4.x"),
                              "Frackin Universe overhaul mod",
                              "https://github.com/sayterdarkwynd/FrackinUniverse")
      vanillaId == SourceIdOf(d2, "vanilla")
      d3 == InsertTable(d2, vanillaId, entity,
              "Functions available to all entities - position, ID, type, damage, etc.",
              "universal")
      entityTable == TableIdOf(d3, vanillaId, entity)
      d4 == insertLuaFunction(d3, entityTable, <<"i", "d">>, "entity.id()",
                              "Returns the entity's unique ID.", "EntityId")
      d5 == insertLuaFunction(d4, entityTable, <<"p", "o", "s", "i", "t", "i", "o", "n">>,
                              "entity.position()",
                              "Returns the entity's current position.", "Vec2F")
      d6 == InsertTable(d5, vanillaId, player,
              "Functions available only in player context - inventory, quests, techs, warping, etc.",
              "player")
  IN  insertLuaFunction(d6, TableIdOf(d6, vanillaId, player), <<"i", "d">>, "player.id()",
                        "Returns the player's entity ID.", "EntityId")

\* lines 467-483: the asset types and fields
SeedAssets(d) ==
  LET vanillaId == SourceIdOf(d, "vanilla")
      fuId == SourceIdOf(d, "frackin-universe")
      d1 == InsertAssetType(d, vanillaId, "tech", ".tech",
              "Tech definitions - player abilities like double jump, dash, sphere, etc.",
              "/tech/")
      techType == AssetTypeIdOf(d1, vanillaId, "tech")
      d2 == InsertField(d1, SeedFieldRow(techType, "name", "String",
                                         "Unique tech identifier", TRUE))
      d3 == InsertField(d2, SeedFieldRow(techType, "chipCost", "Int",
                                         "Cost in tech chips to unlock", FALSE))
      d4 == InsertAssetType(d3, fuId, "activeitem", ".activeitem",
              "FU extends active items with additional fields for its custom weapon/tool systems.",
              "/items/active/")
  IN  InsertField(d4, SeedFieldRow(AssetTypeIdOf(d4, fuId, "activeitem"), "critChance",
                                   "Float", "Critical hit chance (FU mechanic)", FALSE))

\* lines 497-531: a search row for every function, type and field stored
SeedSearchRows(d) ==
  [n \in 1..Len(d.lua_functions) |->
     [entity_type |-> "lua_function", entity_id |-> d.lua_functions[n].id,
      name |-> TableRowOf(d, d.lua_functions[n].table_id).name \o <<".">>
               \o d.lua_functions[n].name,
      content |-> d.lua_functions[n].description,
      source |-> SourceNameOf(d, TableRowOf(d, d.lua_functions[n].table_id).source_id)]]
  \o [n \in 1..Len(d.asset_types) |->
     [entity_type |-> "asset_type", entity_id |-> d.asset_types[n].id,
      name |-> d.asset_types[n].name, content |-> d.asset_types[n].description,
      source |-> SourceNameOf(d, d.asset_types[n].source_id)]]
  \o [n \in 1..Len(d.asset_fields) |->
     [entity_type |-> "asset_field", entity_id |-> d.asset_fields[n].id,
      name |-> <<AssetTypeRowOf(d, d.asset_fields[n].asset_type_id).name, ".",
                 d.asset_fields[n].field_path>>,
      content |-> d.asset_fields[n].description,
      source |-> SourceNameOf(d, AssetTypeRowOf(d, d.asset_fields[n].asset_type_id).source_id)]]

Seed(d) ==
  LET d1 == SeedAssets(SeedLua(d))
  IN  InsertSearchAll(d1, SeedSearchRows(d1))
(***************************************************************************)
(* Runs against one store: the seed script, extract-lua-docs on a          *)
(* documentation directory and extract-openstarbound's store step on the   *)
(* fields of a source directory, in any order, each run a step.            *)
(***************************************************************************)
\* Bound on the number of runs made against the store.
MaxRuns == 3

\* parseMarkdownFile (137-216) on a whole file, from the 0-based index i0
RECURSIVE ParseFrom(_, _, _, _)
ParseFrom(lines, i0, fns, fileName) ==
  IF i0 >= Len(lines) THEN fns
  ELSE IF ~IsFunctionHeading(lines[i0 + 1]) THEN ParseFrom(lines, i0 + 1, fns, fileName)
  ELSE ParseFrom(lines, CollectDescription(lines, i0 + 1).i,
                 Append(fns, ParsedFunction(lines, i0, fns, fileName)), fileName)

\* lines 393-422 of main: the functions of the files of one directory
RECURSIVE ParseDirectory(_, _, _)
ParseDirectory(dir, osb, k) ==
  IF k = 0 THEN <<>>
  ELSE ParseDirectory(dir, osb, k - 1) \o
       (IF dir[k].osb = osb THEN ParseFrom(dir[k].lines, 0, <<>>, k) ELSE <<>>)

\* the documentation directories a run is given
StoreDirectories ==
  <<DocDirectory(<<DocSignature(entity, <<"i", "d">>, <<"E">>, 1),
                   DocSignature(entity, <<"i", "d">>, <<"V">>, 3)>>, 2, FALSE),
    DocDirectory(<<DocSignature(entity, <<"i", "d">>, <<"V">>, 3),
                   DocSignature(player, <<"i", "d">>, <<"E">>, 0),
                   DocSignature(entity, <<"i", "d">>, <<"B">>, 1)>>, 2, TRUE),
    DocDirectory(<<DocSignature(player, <<"i", "d">>, <<"E">>, 0),
                   <<"x">>,
                   DocSignature(entity, <<"i", "d">>, <<"E">>, 1)>>, 2, FALSE)>>

\* an extracted field as extractFieldsFromFile (147-157) builds it
ExtractedField(fieldName, type, defaultValue, lineNumber) ==
  [fieldName |-> fieldName, type |-> type, defaultValue |-> defaultValue,
   optional |-> Truthy(defaultValue),
   sourceFile |-> "StarTechDatabase.cpp", lineNumber |-> lineNumber]

\* the results of main (412-425) a store step is given: a file with two
\* readings of one field; the same file with another reading of it, a file
\* DATABASE_TO_ASSET does not know and a second known file
StoreDbFiles ==
  <<<<[fileName |-> "StarTechDatabase.cpp",
       fields |-> <<ExtractedField("chipCost", "Int", Null, 1),
                    ExtractedField("chipCost", "Float", Str("0"), 2)>>]>>,
    <<[fileName |-> "StarTechDatabase.cpp",
       fields |-> <<ExtractedField("chipCost", "String", Str("x"), 1),
                    ExtractedField("icon", "String", Null, 2)>>],
      [fileName |-> "StarOtherDatabase.cpp",
       fields |-> <<ExtractedField("other", "Bool", Null, 1)>>],
      [fileName |-> "StarItemDatabase.cpp",
       fields |-> <<ExtractedField("itemName", "String", Null, 1)>>]>>>>

StoreInit ==
  /\ db = EmptyDb
  /\ storeRuns = <<>>

\* npm run seed
SeedRun ==
  /\ Len(storeRuns) < MaxRuns
  /\ db' = Seed(db)
  /\ storeRuns' = Append(storeRuns, [kind |-> "seed", input |-> 0])
  /\ UNCHANGED nonStoreVars

\* npm run extract:lua-docs on directory n
LuaDocsRun(n) ==
  /\ Len(storeRuns) < MaxRuns
  /\ db' = InsertAll(db,
                     ParseDirectory(StoreDirectories[n], FALSE, Len(StoreDirectories[n])),
                     ParseDirectory(StoreDirectories[n], TRUE, Len(StoreDirectories[n])))
  /\ storeRuns' = Append(storeRuns, [kind |-> "lua", input |-> n])
  /\ UNCHANGED nonStoreVars

\* the store step of npm run extract:openstarbound on results n
FieldsRun(n) ==
  /\ Len(storeRuns) < MaxRuns
  /\ db' = insertExtractedData(db, StoreDbFiles[n])
  /\ storeRuns' = Append(storeRuns, [kind |-> "fields", input |-> n])
  /\ UNCHANGED nonStoreVars

StoreNext ==
  \/ SeedRun
  \/ \E n \in 1..Len(StoreDirectories) : LuaDocsRun(n)
  \/ \E n \in 1..Len(StoreDbFiles) : FieldsRun(n)

SpecStoreInit == StoreInit /\ ResearchIdle /\ FieldsIdle /\ FuIdle /\ StripIdle /\ RecipeIdle /\ SigIdle /\ LuaIdle /\ TablesIdle

SpecStore == SpecStoreInit /\ [][StoreNext]_vars

\* C7: after any sequence of seed and Lua-doc extraction runs the store
\* holds at most one function row per table and function name and at most
\* one table row per source and table name.
C7_UniqueFunctionsAndTables ==
  /\ \A m, n \in 1..Len(db.lua_functions) :
       (/\ db.lua_functions[m].table_id = db.lua_functions[n].table_id
        /\ db.lua_functions[m].name = db.lua_functions[n].name) => m = n
  /\ \A m, n \in 1..Len(db.lua_tables) :
       (/\ db.lua_tables[m].source_id = db.lua_tables[n].source_id
        /\ db.lua_tables[m].name = db.lua_tables[n].name) => m = n

\* C7 witness: after a seed run and two Lua-doc runs more function rows
\* have been written than the store holds, a row having been replaced, and
\* the vanilla table entity holds one row named id.
C7_Witness ==
  /\ Len(storeRuns) = 3
  /\ \E k \in 1..3 : storeRuns[k].kind = "seed"
  /\ Cardinality({k \in 1..3 : storeRuns[k].kind = "lua"}) = 2
  /\ db.seq.lua_functions > Len(db.lua_functions)
  /\ Cardinality({n \in 1..Len(db.lua_functions) :
                    /\ db.lua_functions[n].name = <<"i", "d">>
                    /\ db.lua_functions[n].table_id
                         = TableIdOf(db, SourceIdOf(db, "vanilla"), entity)}) = 1

\* the stored definition of a field: what a later insert must not change
FieldDefinition(row) ==
  <<row.id, row.asset_type_id, row.field_path, row.type, row.required, row.default_value>>

\* a fields run on results the store step has been given before
RepeatedFieldsRun ==
  /\ Len(storeRuns') = Len(storeRuns) + 1
  /\ storeRuns'[Len(storeRuns')].kind = "fields"
  /\ \E k \in 1..Len(storeRuns) : storeRuns[k] = storeRuns'[Len(storeRuns')]

\* C9: the store holds at most one field per asset type and field path; no
\* run changes the type, required flag or default of a field row that
\* exists; and the store step run again on results it was given before
\* leaves the asset-field table as it was.
C9_FieldStoreIdempotent ==
  /\ [](\A m, n \in 1..Len(db.asset_fields) :
          (/\ db.asset_fields[m].asset_type_id = db.asset_fields[n].asset_type_id
           /\ db.asset_fields[m].field_path = db.asset_fields[n].field_path) => m = n)
  /\ [][/\ Len(db'.asset_fields) >= Len(db.asset_fields)
        /\ \A n \in 1..Len(db.asset_fields) :
             FieldDefinition(db'.asset_fields[n]) = FieldDefinition(db.asset_fields[n])]_vars
  /\ [][RepeatedFieldsRun =>
          /\ Len(db'.asset_fields) = Len(db.asset_fields)
          /\ \A n \in 1..Len(db.asset_fields) :
               FieldDefinition(db'.asset_fields[n]) = FieldDefinition(db.asset_fields[n])]_vars

\* C9 witness: the store step was run twice on the same results and then on
\* results that read chipCost as an optional String with a default: the
\* openstarbound type tech holds chipCost once, as the required Int without
\* default that the first run stored.
C9_Witness ==
  /\ storeRuns = <<[kind |-> "fields", input |-> 1], [kind |-> "fields", input |-> 1],
                   [kind |-> "fields", input |-> 2]>>
  /\ Len(db.asset_fields) = 3
  /\ db.asset_fields[1].field_path = "chipCost"
  /\ db.asset_fields[1].type = "Int"
  /\ db.asset_fields[1].required = 1
  /\ db.asset_fields[1].default_value = Null
  /\ db.asset_fields[1].asset_type_id
       = AssetTypeIdOf(db, SourceIdOf(db, "openstarbound"), "tech")
(***************************************************************************)
(* extractResearchTrees of extract-fu.ts (304-395): pass 1 pushes a node   *)
(* for every body of every tree of every contributing file, pass 2 reads   *)
(* the files again and files every node under each of its children, and    *)
(* the last loop hands each node the parents filed under its id.  Tree     *)
(* and node ids are sequences of characters, joined as the code joins      *)
(* them.                                                                   *)
(***************************************************************************)
\* Bound on the number of .config files of a run.
MaxConfigs == 2

\* v?.[k]
OptGet(v, k) == IF IsNullish(v) THEN Undef ELSE Get(v, k)

\* Object.entries(v) for an object; a number or a boolean has none
ObjectEntries(v) == IF v.t = "object" THEN v.v ELSE <<>>

\* typeof v === "object" && v !== null
IsObjectType(v) == v.t \in {"object", "array"}

\* the template of lines 343, 377 and 380
FullId(treeId, nodeId) == treeId \o <<":">> \o nodeId

\* price.map(([item, count]) => ...) faults unless price is an array of
\* arrays or strings
PriceThrows(price) ==
  /\ ~IsNullish(price)
  /\ \/ price.t # "array"
     \/ \E k \in 1..Len(price.v) : price.v[k].t \notin {"array", "string"}

\* lines 332-333
CostOf(price) ==
  IF IsNullish(price) THEN <<>>
  ELSE [k \in 1..Len(price.v) |->
          [item |-> IF Len(price.v[k].v) >= 1 THEN price.v[k].v[1] ELSE Undef,
           count |-> IF Len(price.v[k].v) >= 2 THEN price.v[k].v[2] ELSE Undef]]

\* lines 327-349: the node pushed for one body
ResearchNode(strings, treeId, nodeId, nodeData) ==
  LET nodeStrings == Coalesce(OptGet(OptGet(strings, "research"), nodeId), Obj(<<>>))
  IN  [tree |-> Coalesce(OptGet(OptGet(strings, "trees"), treeId), Str(treeId)),
       nodeId |-> FullId(treeId, nodeId),
       name |-> Coalesce(OptGet(nodeStrings, "name"), Str(nodeId)),
       description |-> Coalesce(OptGet(nodeStrings, "description"), Str("")),
       cost |-> CostOf(Get(nodeData, "price")),
       prerequisites |-> <<>>,
       unlocks |-> Coalesce(Get(nodeData, "unlocks"), Arr(<<>>))]

\* lines 324-350 from entry k of a tree on
RECURSIVE NodesOfTree(_, _, _, _)
NodesOfTree(strings, treeId, entries, k) ==
  IF k > Len(entries) THEN <<>>
  ELSE (IF IsObjectType(entries[k].v)
        THEN <<ResearchNode(strings, treeId, entries[k].k, entries[k].v)>> ELSE <<>>)
       \o NodesOfTree(strings, treeId, entries, k + 1)

\* lines 321-351 from tree k of a file on
RECURSIVE NodesOfTrees(_, _, _)
NodesOfTrees(strings, trees, k) ==
  IF k > Len(trees) THEN <<>>
  ELSE NodesOfTree(strings, trees[k].k, ObjectEntries(trees[k].v), 1)
       \o NodesOfTrees(strings, trees, k + 1)

NodesOfFile(data) ==
  NodesOfTrees(Coalesce(Get(data, "strings"), Obj(<<>>)),
               ObjectEntries(Get(data, "researchTree")), 1)

\* if (!data || !data.researchTree) continue;
IsContributing(data) == Truthy(data) /\ Truthy(Get(data, "researchTree"))

\* a fault in pass 1: Object.entries of a tree that is null, or a price
\* that cannot be mapped
Pass1Throws(data) ==
  LET trees == ObjectEntries(Get(data, "researchTree"))
  IN  \E t \in 1..Len(trees) :
        \/ IsNullish(trees[t].v)
        \/ \E n \in 1..Len(ObjectEntries(trees[t].v)) :
             /\ IsObjectType(ObjectEntries(trees[t].v)[n].v)
             /\ PriceThrows(Get(ObjectEntries(trees[t].v)[n].v, "price"))

\* for (const childId of children) faults unless children is iterable
ChildrenThrow(children) ==
  ~IsNullish(children) /\ children.t \notin {"array", "string"}

\* a fault in pass 2: Object.entries of a tree that is null, or children
\* that cannot be iterated
Pass2Throws(data) ==
  LET trees == ObjectEntries(Get(data, "researchTree"))
  IN  \E t \in 1..Len(trees) :
        \/ IsNullish(trees[t].v)
        \/ \E n \in 1..Len(ObjectEntries(trees[t].v)) :
             /\ IsObjectType(ObjectEntries(trees[t].v)[n].v)
             /\ ChildrenThrow(Get(ObjectEntries(trees[t].v)[n].v, "children"))

\* the ids for...of yields: the strings of a list, the characters of a
\* string
ChildIds(children) ==
  IF IsNullish(children) THEN <<>>
  ELSE IF children.t = "string" THEN [k \in 1..Len(children.v) |-> <<children.v[k]>>]
  ELSE [k \in 1..Len(children.v) |-> children.v[k].v]

\* childToParent.get(key) ?? []
MapGet(m, key) ==
  IF \E j \in 1..Len(m) : m[j].k = key
  THEN m[CHOOSE j \in 1..Len(m) : m[j].k = key].v ELSE <<>>

\* lines 381-383: existing.push(fullNodeId); childToParent.set(...)
MapPush(m, key, val) ==
  IF \E j \in 1..Len(m) : m[j].k = key
  THEN [m EXCEPT ![CHOOSE j \in 1..Len(m) : m[j].k = key].v = Append(@, val)]
  ELSE Append(m, [k |-> key, v |-> <<val>>])

\* lines 379-384 from child k of a node on
RECURSIVE PushChildren(_, _, _, _, _)
PushChildren(m, treeId, nodeId, childIds, k) ==
  IF k > Len(childIds) THEN m
  ELSE PushChildren(MapPush(m, FullId(treeId, childIds[k]), FullId(treeId, nodeId)),
                    treeId, nodeId, childIds, k + 1)

\* lines 374-385 from entry k of a tree on
RECURSIVE PushNodes(_, _, _, _)
PushNodes(m, treeId, entries, k) ==
  IF k > Len(entries) THEN m
  ELSE PushNodes(IF IsObjectType(entries[k].v)
                 THEN PushChildren(m, treeId, entries[k].k,
                                   ChildIds(Get(entries[k].v, "children")), 1)
                 ELSE m,
                 treeId, entries, k + 1)

\* lines 373-386 from tree k of a file on
RECURSIVE PushTrees(_, _, _)
PushTrees(m, trees, k) ==
  IF k > Len(trees) THEN m
  ELSE PushTrees(PushNodes(m, trees[k].k, ObjectEntries(trees[k].v), 1), trees, k + 1)

\* a node body with a children list
Body(childIds) ==
  Obj(<<Entry("children", Arr([k \in 1..Len(childIds) |-> Str(childIds[k])]))>>)

\* the .config files of a run: one that cannot be parsed; one without the
\* researchTree key; tree t1 where a lists b, with a price, an unlock and
\* display strings; tree t1 where c lists b and a and b is no object, and
\* tree t2 with its own a and b; the trees t:x and t, whose ids hold a
\* colon; a tree that is null; children that are a number; tree t1 where b
\* lists a, and tree t3 where s lists itself
ConfigCatalogue ==
  <<Invalid,
    Json(Obj(<<Entry("itemMapFarm", Obj(<<>>))>>)),
    Json(Obj(<<Entry("researchTree",
                 Obj(<<Entry(<<"t", "1">>,
                         Obj(<<Entry(<<"a">>,
                                 Obj(<<Entry("children", Arr(<<Str(<<"b">>)>>)),
                                       Entry("price", Arr(<<Arr(<<Str("ore"), Num(2)>>)>>)),
                                       Entry("unlocks", Arr(<<Str("pickaxe")>>))>>)),
                               Entry(<<"b">>, Obj(<<>>))>>))>>)),
               Entry("strings",
                 Obj(<<Entry("trees", Obj(<<Entry(<<"t", "1">>, Str("Tree One"))>>)),
                       Entry("research",
                         Obj(<<Entry(<<"a">>, Obj(<<Entry("name", Str("Alpha"))>>))>>))>>))>>)),
    Json(Obj(<<Entry("researchTree",
                 Obj(<<Entry(<<"t", "1">>,
                         Obj(<<Entry(<<"c">>, Body(<<<<"b">>, <<"a">>>>)),
                               Entry(<<"b">>, Str("later"))>>)),
                       Entry(<<"t", "2">>,
                         Obj(<<Entry(<<"a">>, Body(<<<<"b">>>>)),
                               Entry(<<"b">>, Obj(<<>>))>>))>>))>>)),
    Json(Obj(<<Entry("researchTree",
                 Obj(<<Entry(<<"t", ":", "x">>,
                         Obj(<<Entry(<<"a">>, Body(<<<<"b">>>>)),
                               Entry(<<"b">>, Obj(<<>>))>>)),
                       Entry(<<"t">>,
                         Obj(<<Entry(<<"x", ":", "a">>, Obj(<<>>)),
                               Entry(<<"x", ":", "b">>, Obj(<<>>))>>))>>))>>)),
    Json(Obj(<<Entry("researchTree", Obj(<<Entry(<<"t", "1">>, Null)>>))>>)),
    Json(Obj(<<Entry("researchTree",
                 Obj(<<Entry(<<"t", "1">>,
                         Obj(<<Entry(<<"a">>, Obj(<<Entry("children", Num(5))>>))>>))>>))>>)),
    Json(Obj(<<Entry("researchTree",
                 Obj(<<Entry(<<"t", "1">>,
                         Obj(<<Entry(<<"b">>, Body(<<<<"a">>>>)),
                               Entry(<<"a">>, Obj(<<>>))>>)),
                       Entry(<<"t", "3">>,
                         Obj(<<Entry(<<"s">>, Body(<<<<"s">>>>))>>))>>))>>))>>

ResearchInit ==
  /\ configFiles \in SeqsUpTo({ConfigCatalogue[k] : k \in 1..Len(ConfigCatalogue)}, MaxConfigs)
  /\ configIdx = 0
  /\ nodes = <<>>
  /\ childToParent = <<>>
  /\ respc = "pass1"

InPass(pass) == respc = pass /\ configIdx < Len(configFiles)
CurrentConfig == ReadJsonFile(configFiles[configIdx + 1])

\* line 313: the file does not contribute
ResPass1Skip ==
  /\ InPass("pass1")
  /\ ~IsContributing(CurrentConfig)
  /\ configIdx' = configIdx + 1
  /\ UNCHANGED <<configFiles, nodes, childToParent, respc>>
  /\ UNCHANGED nonResearchVars

\* lines 315-351: the nodes of a contributing file are pushed
ResPass1File ==
  /\ InPass("pass1")
  /\ IsContributing(CurrentConfig)
  /\ ~Pass1Throws(CurrentConfig)
  /\ nodes' = nodes \o NodesOfFile(CurrentConfig)
  /\ configIdx' = configIdx + 1
  /\ UNCHANGED <<configFiles, childToParent, respc>>
  /\ UNCHANGED nonResearchVars

\* lines 355-367: the loop over nodeMap changes nothing; childToParent is new
ResStartPass2 ==
  /\ respc = "pass1"
  /\ configIdx = Len(configFiles)
  /\ respc' = "pass2"
  /\ configIdx' = 0
  /\ childToParent' = <<>>
  /\ UNCHANGED <<configFiles, nodes>>
  /\ UNCHANGED nonResearchVars

\* line 370
ResPass2Skip ==
  /\ InPass("pass2")
  /\ ~IsContributing(CurrentConfig)
  /\ configIdx' = configIdx + 1
  /\ UNCHANGED <<configFiles, nodes, childToParent, respc>>
  /\ UNCHANGED nonResearchVars

\* lines 372-386: every node of the file is filed under its children
ResPass2File ==
  /\ InPass("pass2")
  /\ IsContributing(CurrentConfig)
  /\ ~Pass2Throws(CurrentConfig)
  /\ childToParent' = PushTrees(childToParent,
                                ObjectEntries(Get(CurrentConfig, "researchTree")), 1)
  /\ configIdx' = configIdx + 1
  /\ UNCHANGED <<configFiles, nodes, respc>>
  /\ UNCHANGED nonResearchVars

\* lines 389-394: each node takes the parents filed under its id
ResAssign ==
  /\ respc = "pass2"
  /\ configIdx = Len(configFiles)
  /\ nodes' = [n \in 1..Len(nodes) |->
                 [nodes[n] EXCEPT !.prerequisites = MapGet(childToParent, nodes[n].nodeId)]]
  /\ respc' = "returned"
  /\ UNCHANGED <<configFiles, configIdx, childToParent>>
  /\ UNCHANGED nonResearchVars

\* a TypeError in either pass leaves extractResearchTrees
ResThrows ==
  /\ \/ InPass("pass1") /\ IsContributing(CurrentConfig) /\ Pass1Throws(CurrentConfig)
     \/ InPass("pass2") /\ IsContributing(CurrentConfig) /\ Pass2Throws(CurrentConfig)
  /\ respc' = "thrown"
  /\ UNCHANGED <<configFiles, configIdx, nodes, childToParent>>
  /\ UNCHANGED nonResearchVars

ResearchNext ==
  \/ ResPass1Skip
  \/ ResPass1File
  \/ ResStartPass2
  \/ ResPass2Skip
  \/ ResPass2File
  \/ ResAssign
  \/ ResThrows

SpecResearchInit ==
  ResearchInit /\ FuIdle /\ FieldsIdle /\ StripIdle /\ RecipeIdle /\ SigIdle /\ LuaIdle /\ DbIdle /\ TablesIdle

SpecResearch == SpecResearchInit /\ [][ResearchNext]_vars

\* the contributing files' trees
AuthoredTrees(file) ==
  IF IsContributing(ReadJsonFile(file))
  THEN ObjectEntries(Get(ReadJsonFile(file), "researchTree")) ELSE <<>>

\* the nodes one tree of one file declares, in the order written
RECURSIVE DeclaredInTree(_, _, _)
DeclaredInTree(treeId, entries, k) ==
  IF k > Len(entries) THEN <<>>
  ELSE (IF IsObjectType(entries[k].v)
        THEN <<[treeId |-> treeId, nodeId |-> entries[k].k]>> ELSE <<>>)
       \o DeclaredInTree(treeId, entries, k + 1)

RECURSIVE DeclaredInTrees(_, _)
DeclaredInTrees(trees, k) ==
  IF k > Len(trees) THEN <<>>
  ELSE DeclaredInTree(trees[k].k, ObjectEntries(trees[k].v), 1)
       \o DeclaredInTrees(trees, k + 1)

\* the nodes the files declare, as pairs of tree id and node id, in order
RECURSIVE Declared(_, _)
Declared(files, k) ==
  IF k > Len(files) THEN <<>>
  ELSE DeclaredInTrees(AuthoredTrees(files[k]), 1) \o Declared(files, k + 1)

\* some body written for node a of tree t lists b among its children
ListsChild(files, t, a, b) ==
  \E f \in 1..Len(files) :
    \E x \in 1..Len(AuthoredTrees(files[f])) :
      /\ AuthoredTrees(files[f])[x].k = t
      /\ \E n \in 1..Len(ObjectEntries(AuthoredTrees(files[f])[x].v)) :
           LET e == ObjectEntries(AuthoredTrees(files[f])[x].v)[n]
           IN  /\ e.k = a
               /\ IsObjectType(e.v)
               /\ \E c \in 1..Len(ChildIds(Get(e.v, "children"))) :
                    ChildIds(Get(e.v, "children"))[c] = b

\* C8 as stated: when extractResearchTrees returns, for every tree T and
\* nodes A and B of T, B's prerequisite list contains the id T:A if and
\* only if a body of A lists B among its children.
C8_PrerequisitesIffChildren ==
  respc = "returned" =>
    LET decl == Declared(configFiles, 1)
    IN  /\ Len(nodes) = Len(decl)
        /\ \A x, y \in 1..Len(decl) :
             decl[x].treeId = decl[y].treeId =>
               ((\E j \in 1..Len(nodes[y].prerequisites) :
                   nodes[y].prerequisites[j] = FullId(decl[x].treeId, decl[x].nodeId))
                <=> ListsChild(configFiles, decl[x].treeId, decl[x].nodeId, decl[y].nodeId))

(***************************************************************************)
(* insertData of extract-fu.ts (398-543).  Every record of a batch is two  *)
(* writes: the row of its entity table, then its search row, which holds   *)
(* the id the first write returned.                                        *)
(***************************************************************************)
\* a variant with the probabilities of uncommon and rare exchanged
ChanceSwapped(rarity) ==
  IF rarity = "common" THEN 90
  ELSE IF rarity = "uncommon" THEN 20
  ELSE IF rarity = "rare" THEN 50
  ELSE 5

\* line 469, in hundredths: 0.9, 0.5, 0.2 and, for everything else, 0.05
Chance(rarity) ==
  IF rarity = "common" THEN 90
  ELSE IF rarity = "uncommon" THEN 50
  ELSE IF rarity = "rare" THEN 20
  ELSE 5

\* JSON.stringify of a value the store keeps as text
JsonText(v) == [json |-> v]

\* the batches of insertData in the order they run, and their tables
FuBatches == <<"recipes", "centrifuge", "extraction", "research">>
FuTable == [recipes |-> "recipes", centrifuge |-> "fu_extraction",
            extraction |-> "fu_extraction", research |-> "fu_research"]

\* the values bound by insertRecipe.run (441-449), insertExtraction.run
\* (474-479, 503-508) and insertResearch.run (526-534)
FuEntityRow(batch, sourceId, rec) ==
  CASE batch = "recipes" ->
         [id |-> 0, source_id |-> sourceId, output_item |-> rec.outputItem,
          output_count |-> rec.outputCount, station |-> rec.station,
          groups |-> JsonText(rec.groups), inputs |-> JsonText(rec.inputs),
          duration |-> rec.duration]
    [] batch = "centrifuge" ->
         [id |-> 0, input_item |-> rec.inputItem, method |-> rec.method,
          outputs |-> JsonText([n \in 1..Len(rec.outputs) |->
                                  [item |-> rec.outputs[n].item,
                                   count |-> rec.outputs[n].count,
                                   chance |-> Chance(rec.outputs[n].rarity),
                                   rarity |-> rec.outputs[n].rarity]]),
          notes |-> Null]
    [] batch = "extraction" ->
         [id |-> 0, input_item |-> rec.inputItem, method |-> rec.method,
          outputs |-> JsonText([n \in 1..Len(rec.outputs) |->
                                  [item |-> rec.outputs[n].item,
                                   count |-> rec.outputs[n].count,
                                   chance |-> 100,
                                   tier |-> rec.outputs[n].tier]]),
          notes |-> [inputCount |-> rec.inputCount]]
    [] batch = "research" ->
         [id |-> 0, tree |-> rec.tree, node_id |-> rec.nodeId, name |-> rec.name,
          description |-> rec.description, cost |-> JsonText(rec.cost),
          prerequisites |-> JsonText(rec.prerequisites),
          unlocks |-> JsonText(rec.unlocks)]

\* the values bound by insertSearch.run (451-457, 481-487, 510-516, 536-542)
FuSearchRow(batch, rec, id) ==
  CASE batch = "recipes" ->
         [entity_type |-> "recipe", entity_id |-> id, name |-> rec.outputItem,
          content |-> [crafts |-> rec.outputItem, x |-> rec.outputCount,
                       at |-> Coalesce(rec.station, Str("hand"))],
          source |-> "frackin-universe"]
    [] batch \in {"centrifuge", "extraction"} ->
         [entity_type |-> "fu_extraction", entity_id |-> id, name |-> rec.inputItem,
          content |-> [method |-> rec.method, item |-> rec.inputItem,
                       to |-> [n \in 1..Len(rec.outputs) |-> rec.outputs[n].item]],
          source |-> "frackin-universe"]
    [] batch = "research" ->
         [entity_type |-> "fu_research", entity_id |-> id, name |-> rec.name,
          content |-> [research |-> rec.name, in |-> rec.tree, text |-> rec.description],
          source |-> "frackin-universe"]

\* one statement of a batch on the store d.  part 1 is the entity insert:
\* a plain INSERT, or for research INSERT OR REPLACE under UNIQUE(node_id),
\* which deletes the row in conflict; the row takes the next id of its
\* table.  part 2 is the search insert with result.lastInsertRowid.
FuWrite(d, batch, sourceId, rec, part) ==
  LET table == FuTable[batch]
      row == [FuEntityRow(batch, sourceId, rec) EXCEPT !.id = d.seq[table] + 1]
      kept == IF batch = "research"
              THEN SelectSeq(d[table], LAMBDA r : r.node_id # rec.nodeId)
              ELSE d[table]
  IN  IF part = 1
      THEN [d EXCEPT ![table] = Append(kept, row), !.seq[table] = @ + 1]
      ELSE [d EXCEPT !.search_index = Append(@, FuSearchRow(batch, rec, d.seq[table]))]

\* the statements a batch has run when w of them are done: record and part
FuRecordAt(w) == (w \div 2) + 1
FuPartAt(w) == (w % 2) + 1

\* the body of a transaction function from its statement w on
RECURSIVE FuBatchFrom(_, _, _, _, _)
FuBatchFrom(d, batch, sourceId, recs, w) ==
  IF w >= 2 * Len(recs) THEN d
  ELSE FuBatchFrom(FuWrite(d, batch, sourceId, recs[FuRecordAt(w)], FuPartAt(w)),
                   batch, sourceId, recs, w + 1)

\* lines 407-415: get or create the FU source
FuSource(d) ==
  GetOrCreateSource(d, "frackin-universe", Null, "Frackin Universe overhaul mod",
                    "https://github.com/sayterdarkwynd/FrackinUniverse")

\* the store after the first k batches of insertData have committed
RECURSIVE FuCommitted(_, _, _)
FuCommitted(d, data, k) ==
  IF k = 0 THEN FuSource(d)
  ELSE LET before == FuCommitted(d, data, k - 1)
       IN  FuBatchFrom(before, FuBatches[k], SourceIdOf(before, "frackin-universe"),
                       data[FuBatches[k]], 0)

insertData(d, data) == FuCommitted(d, data, Len(FuBatches))

(***************************************************************************)
(* insertData step by step.  db is the store as the connection sees it,    *)
(* uncommitted statements included; txnStart is what the file holds.  Each *)
(* batch runs inside db.transaction (439, 461, 493, 521): a statement that *)
(* throws makes the wrapper roll back and rethrow, which ends the run; a   *)
(* process that dies leaves the log without a commit record, so the next   *)
(* connection sees the store as of the last commit.                        *)
(***************************************************************************)
\* Bound on the number of insertData runs against one store.
MaxFuRuns == 2

nonFuVars == <<stripVars, recipeVars, sigVars, luaVars, researchVars, fieldVars, againVars, tableVars>>

\* the extracted data main (571-589) hands to insertData
FuInputs ==
  <<[recipes |->
       <<[outputItem |-> "bar", outputCount |-> 3, station |-> Str("anvil"),
          groups |-> <<"anvil", "all">>, inputs |-> <<[item |-> "ore", count |-> 2]>>,
          duration |-> Num(4)],
         [outputItem |-> "rod", outputCount |-> 1, station |-> Null,
          groups |-> <<>>, inputs |-> <<>>, duration |-> Null]>>,
     centrifuge |->
       <<[inputItem |-> "comb", method |-> "centrifuge (bees)",
          outputs |-> <<[item |-> "wax", count |-> 1, rarity |-> "common"],
                        [item |-> "gold", count |-> 2, rarity |-> "rarest"]>>]>>,
     extraction |->
       <<[inputItem |-> "ore", inputCount |-> 2, method |-> "extraction lab",
          outputs |-> <<[item |-> "dust", count |-> 1, tier |-> "basic"],
                        [item |-> "dust", count |-> 2, tier |-> "improved"],
                        [item |-> "dust", count |-> 3, tier |-> "advanced"]>>]>>,
     research |->
       <<[tree |-> "Tree", nodeId |-> <<"t", ":", "a">>, name |-> "A",
          description |-> "", cost |-> <<[item |-> "ore", count |-> 5]>>,
          prerequisites |-> <<>>, unlocks |-> <<"bar">>],
         [tree |-> "Tree", nodeId |-> <<"t", ":", "b">>, name |-> "B",
          description |-> "", cost |-> <<>>,
          prerequisites |-> << <<"t", ":", "a">> >>, unlocks |-> <<>>]>>],
    [recipes |-> <<>>,
     centrifuge |->
       <<[inputItem |-> "sand", method |-> "sifter (powder)",
          outputs |-> <<[item |-> "salt", count |-> 1, rarity |-> "uncommon"],
                        [item |-> "gem", count |-> 1, rarity |-> "rare"],
                        [item |-> "egg", count |-> 1, rarity |-> "legendary"]>>]>>,
     extraction |-> <<>>,
     research |->
       <<[tree |-> "Tree", nodeId |-> <<"t", ":", "a">>, name |-> "A2",
          description |-> "again", cost |-> <<>>,
          prerequisites |-> <<>>, unlocks |-> <<>>],
         [tree |-> "t", nodeId |-> <<"t", ":", "a">>, name |-> "A3",
          description |-> "", cost |-> <<>>,
          prerequisites |-> <<>>, unlocks |-> <<>>]>>]>>

\* the data of the run in progress, its open batch and that batch's records
FuData == FuInputs[storeRuns[Len(storeRuns)].input]
FuRecords == FuData[FuBatches[fuBatch]]

FuInsertInit ==
  /\ db = EmptyDb
  /\ storeRuns = <<>>
  /\ fuBase = EmptyDb
  /\ fuBatch = 0
  /\ fuWrites = 0
  /\ txnStart = EmptyDb
  /\ fupc = "ready"

\* a variant of the rollback that keeps what the transaction wrote
RollbackNothing(committed, working) == working

\* ROLLBACK: the store is again what the last commit left
Rollback(committed, working) == committed

\* lines 405-439 on data n: the source row, written outside any
\* transaction, then recipeTransaction() opens the first one
FuStart(n) ==
  /\ fupc \in {"ready", "failed", "dead", "done"}
  /\ Len(storeRuns) < MaxFuRuns
  /\ storeRuns' = Append(storeRuns, [kind |-> "fu", input |-> n])
  /\ fuBase' = db
  /\ db' = FuSource(db)
  /\ txnStart' = FuSource(db)
  /\ fuBatch' = 1
  /\ fuWrites' = 0
  /\ fupc' = "batch"
  /\ UNCHANGED nonFuVars

\* the next insert...run(...) of the open transaction succeeds
FuStatement ==
  /\ fupc = "batch"
  /\ fuWrites < 2 * Len(FuRecords)
  /\ db' = FuWrite(db, FuBatches[fuBatch], SourceIdOf(db, "frackin-universe"),
                   FuRecords[FuRecordAt(fuWrites)], FuPartAt(fuWrites))
  /\ fuWrites' = fuWrites + 1
  /\ UNCHANGED <<fuBase, fuBatch, txnStart, fupc, storeRuns>>
  /\ UNCHANGED nonFuVars

\* the next insert...run(...) throws: the wrapper rolls back and rethrows,
\* nothing catches it and main ends
FuStatementFails ==
  /\ fupc = "batch"
  /\ fuWrites < 2 * Len(FuRecords)
  /\ db' = Rollback(txnStart, db)
  /\ fupc' = "failed"
  /\ UNCHANGED <<fuBase, fuBatch, fuWrites, txnStart, storeRuns>>
  /\ UNCHANGED nonFuVars

\* the process dies inside the open transaction
FuDies ==
  /\ fupc = "batch"
  /\ db' = Rollback(txnStart, db)
  /\ fupc' = "dead"
  /\ UNCHANGED <<fuBase, fuBatch, fuWrites, txnStart, storeRuns>>
  /\ UNCHANGED nonFuVars

\* the transaction function returns: COMMIT, and the next batch opens its
\* own transaction (459, 491, 519, 544)
FuCommit ==
  /\ fupc = "batch"
  /\ fuWrites = 2 * Len(FuRecords)
  /\ txnStart' = db
  /\ fuWrites' = 0
  /\ IF fuBatch < Len(FuBatches)
     THEN fuBatch' = fuBatch + 1 /\ fupc' = "batch"
     ELSE fuBatch' = fuBatch /\ fupc' = "done"
  /\ UNCHANGED <<fuBase, db, storeRuns>>
  /\ UNCHANGED nonFuVars

FuInsertNext ==
  \/ \E n \in 1..Len(FuInputs) : FuStart(n)
  \/ FuStatement
  \/ FuStatementFails
  \/ FuDies
  \/ FuCommit

SpecFuInsertInit ==
  FuInsertInit /\ ResearchIdle /\ FieldsIdle /\ StripIdle /\ RecipeIdle /\ SigIdle /\ LuaIdle /\ TablesIdle

SpecFuInsert == SpecFuInsertInit /\ [][FuInsertNext]_vars

(***************************************************************************)
(* The entry points: main of extract-fu.ts (548-628), of                   *)
(* extract-openstarbound.ts (384-467) and of extract-lua-docs.ts           *)
(* (365-455), and the seed script, run in any order against one store.     *)
(* A run is a step; args is process.argv.slice(2).                         *)
(***************************************************************************)
\* Bound on the number of entry-point runs against one store.
MaxMainRuns == 2

\* args.indexOf(flag): 0-based, -1 when the flag is not among the arguments
ArgIndexOf(args, flag) ==
  IF \E k \in 1..Len(args) : args[k] = flag
  THEN Min({k \in 1..Len(args) : args[k] = flag}) - 1
  ELSE -1

\* args[args.indexOf(flag) + 1], the empty text for undefined: both falsy
ArgAfter(args, flag) ==
  IF ArgIndexOf(args, flag) + 2 > Len(args) THEN "" ELSE args[ArgIndexOf(args, flag) + 2]

\* a variant that never sees the flag
DryRunNever(args) == FALSE

\* args.includes("--dry-run")
DryRun(args) == \E k \in 1..Len(args) : args[k] = "--dry-run"

\* fs.existsSync of the directory a run reads (560, 396, 379): the paths
\* under which the file system holds one
ExistingPaths == {"dir", "--dry-run"}

\* how main ends: with the usage text and exit code 1, with the path error
\* and exit code 1, after the dry-run report, or after the store step
MainOutcome(args, flag) ==
  IF ArgIndexOf(args, flag) = -1 \/ ArgAfter(args, flag) = "" THEN "usage"
  ELSE IF ArgAfter(args, flag) \notin ExistingPaths THEN "nopath"
  ELSE IF DryRun(args) THEN "dry"
  ELSE "insert"

\* the argument lists a run is started with
ArgLists(flag) ==
  { <<>>, <<"--dry-run">>, <<flag>>, <<flag, "dir">>, <<flag, "nodir">>,
    <<flag, "dir", "--dry-run">>, <<"--dry-run", flag, "dir">>, <<flag, "--dry-run">> }

MainInit ==
  /\ db = EmptyDb
  /\ storeRuns = <<>>

\* npm run seed: the script takes no argument
MainSeed ==
  /\ Len(storeRuns) < MaxMainRuns
  /\ db' = Seed(db)
  /\ storeRuns' = Append(storeRuns, [kind |-> "seed", input |-> 0, args |-> <<>>])
  /\ UNCHANGED nonStoreVars

\* npm run extract:fu on a mod directory whose extraction yields data n
FuMain(args, n) ==
  /\ Len(storeRuns) < MaxMainRuns
  /\ db' = IF MainOutcome(args, "--fu-path") = "insert"
           THEN insertData(db, FuInputs[n]) ELSE db
  /\ storeRuns' = Append(storeRuns, [kind |-> "fu", input |-> n, args |-> args])
  /\ UNCHANGED nonStoreVars

\* npm run extract:openstarbound on a source tree whose files yield results n
OsbMain(args, n) ==
  /\ Len(storeRuns) < MaxMainRuns
  /\ db' = IF MainOutcome(args, "--source-path") = "insert"
           THEN insertExtractedData(db, StoreDbFiles[n]) ELSE db
  /\ storeRuns' = Append(storeRuns, [kind |-> "fields", input |-> n, args |-> args])
  /\ UNCHANGED nonStoreVars

\* npm run extract:lua-docs on a source tree with documentation directory n
LuaMain(args, n) ==
  /\ Len(storeRuns) < MaxMainRuns
  /\ db' = IF MainOutcome(args, "--source-path") = "insert"
           THEN InsertAll(db,
                  ParseDirectory(StoreDirectories[n], FALSE, Len(StoreDirectories[n])),
                  ParseDirectory(StoreDirectories[n], TRUE, Len(StoreDirectories[n])))
           ELSE db
  /\ storeRuns' = Append(storeRuns, [kind |-> "lua", input |-> n, args |-> args])
  /\ UNCHANGED nonStoreVars

MainNext ==
  \/ MainSeed
  \/ \E args \in ArgLists("--fu-path") : \E n \in 1..Len(FuInputs) : FuMain(args, n)
  \/ \E args \in ArgLists("--source-path") : \E n \in 1..Len(StoreDbFiles) : OsbMain(args, n)
  \/ \E args \in ArgLists("--source-path") : \E n \in 1..Len(StoreDirectories) : LuaMain(args, n)

SpecMainInit ==
  MainInit /\ ResearchIdle /\ FuIdle /\ FieldsIdle /\ StripIdle /\ RecipeIdle /\ SigIdle /\ LuaIdle /\ TablesIdle

SpecMain == SpecMainInit /\ [][MainNext]_vars

(***************************************************************************)
(* extractFieldsFromFile of extract-openstarbound.ts (118-287).  The file  *)
(* is read as the accessor calls it holds, one to a line and more than 150 *)
(* characters apart, so that a window around a call (180, 225) and the ten *)
(* characters before it (221) show nothing but what wraps the call itself. *)
(* A call is written  before .accessor cppType ("field" rest :             *)
(*   .getInt("f", 0)           accessor get, cppType Int, rest  , 0)       *)
(*   jsonToColor(c.get("g"))   before jsonToColor, rest  )                 *)
(*   (c.get("f")).toInt()      rest  )).toInt()                            *)
(***************************************************************************)
\* Bound on the number of accessor calls of a file.
MaxCalls == 2

Call(accessor, cppType, field, rest, before) ==
  [accessor |-> accessor, cppType |-> cppType, field |-> field, rest |-> rest,
   before |-> before]

\* the alternatives of PATTERNS.typedGetter (98) and PATTERNS.optGetter (101)
TypedGetterTypes == {"String", "Bool", "Float", "Double", "Int", "UInt", "Array", "Object"}
OptGetterTypes == {"String", "Float", "Int", "UInt", "Bool", "Array", "Object"}

\* GETTER_TYPE_MAP[cppType] ?? cppType (68-77)
GetterType(cppType) == IF cppType = "Double" THEN "Float" ELSE cppType

\* CONVERTER_TYPE_MAP (79-91)
ConverterTypeMap ==
  [jsonToVec2F |-> "Vec2F", jsonToVec2I |-> "Vec2I", jsonToVec2U |-> "Vec2U",
   jsonToVec3B |-> "Vec3B", jsonToVec4B |-> "Vec4B", jsonToColor |-> "Color",
   jsonToRectF |-> "RectF", jsonToPolyF |-> "PolyF", jsonToStringList |-> "String[]",
   jsonToStringSet |-> "StringSet", jsonToWeightedPool |-> "WeightedPool"]

\* the end of typedGetter and genericGet after the closing quote of the
\* field: an optional comma and default, which runs up to the first closing
\* parenthesis, then that parenthesis.  after is the text behind the match.
MatchDefaultTail(rest) ==
  IF Ch(rest, 1) = ")"
  THEN [ok |-> TRUE, hasDefault |-> FALSE, default |-> <<>>, after |-> Tail(rest)]
  ELSE IF Ch(rest, SkipSpace(rest, 1)) = ","
    THEN LET q == SkipSpace(rest, SkipSpace(rest, 1) + 1)
             close == {j \in q..Len(rest) : rest[j] = ")"}
         IN  IF close = {} THEN NoMatch
             ELSE [ok |-> TRUE, hasDefault |-> TRUE,
                   default |-> SubSeq(rest, q, Min(close) - 1),
                   after |-> SubSeq(rest, Min(close) + 1, Len(rest))]
  ELSE NoMatch

\* the end of optGetter, genericOpt and contains: white space, parenthesis
MatchCloseTail(rest) == Ch(rest, SkipSpace(rest, 1)) = ")"

\* pattern k of the six matches the call
PatternMatches(k, call) ==
  CASE k = 1 -> /\ call.accessor = "get" /\ call.cppType \in TypedGetterTypes
                /\ MatchDefaultTail(call.rest).ok
    [] k = 2 -> /\ call.accessor = "opt" /\ call.cppType \in OptGetterTypes
                /\ MatchCloseTail(call.rest)
    [] k = 3 -> call.accessor = "opt" /\ call.cppType = "" /\ MatchCloseTail(call.rest)
    [] k = 4 -> call.accessor = "get" /\ call.before \in DOMAIN ConverterTypeMap
    [] k = 5 -> call.accessor = "get" /\ call.cppType = "" /\ MatchDefaultTail(call.rest).ok
    [] k = 6 -> call.accessor = "contains" /\ MatchCloseTail(call.rest)

\* lines 181-187, 226-234: the first converter name the window holds
WindowType(call) ==
  IF call.before \in DOMAIN ConverterTypeMap THEN ConverterTypeMap[call.before] ELSE "Json"

\* the names the pattern of line 238 knows, as written
CoercionNames ==
  [Float |-> <<"F", "l", "o", "a", "t">>, Int |-> <<"I", "n", "t">>,
   Bool |-> <<"B", "o", "o", "l">>, String |-> <<"S", "t", "r", "i", "n", "g">>,
   UInt |-> <<"U", "I", "n", "t">>, Array |-> <<"A", "r", "r", "a", "y">>,
   Object |-> <<"O", "b", "j", "e", "c", "t">>]

\* line 238 on the text behind the match: a closing parenthesis, a dot, to,
\* one of the names, an opening parenthesis; "" when there is no match
CoercionOf(after) ==
  LET p == SkipSpace(after, 1)
      q == SkipSpace(after, p + 1)
      r == SkipSpace(after, q + 1)
      hit == {T \in DOMAIN CoercionNames :
                /\ Ch(after, p) = ")" /\ Ch(after, q) = "."
                /\ Ch(after, r) = "t" /\ Ch(after, r + 1) = "o"
                /\ r + 1 + Len(CoercionNames[T]) <= Len(after)
                /\ SubSeq(after, r + 2, r + 1 + Len(CoercionNames[T])) = CoercionNames[T]
                /\ Ch(after, SkipSpace(after, r + 2 + Len(CoercionNames[T]))) = "("}
  IN  IF hit = {} THEN "" ELSE CHOOSE T \in hit : TRUE

AllDigits(s) == s # <<>> /\ \A p \in 1..Len(s) : s[p] \in Digits

\* lines 246-251 on the trimmed default
LiteralType(dv) ==
  LET body == IF dv # <<>> /\ dv[Len(dv)] = "f" THEN SubSeq(dv, 1, Len(dv) - 1) ELSE dv
  IN  IF dv \in {<<"t", "r", "u", "e">>, <<"f", "a", "l", "s", "e">>} THEN "Bool"
      ELSE IF dv \in {<<"J", "s", "o", "n", "A", "r", "r", "a", "y", "(", ")">>, <<"{", "}">>}
        THEN "Array"
      ELSE IF dv \in {<<"J", "s", "o", "n", "O", "b", "j", "e", "c", "t", "(", ")">>,
                      <<"J", "s", "o", "n", "O", "b", "j", "e", "c", "t", "{", "}">>}
        THEN "Object"
      ELSE IF \E d \in 2..(Len(body) - 1) :
                /\ body[d] = "."
                /\ AllDigits(SubSeq(body, 1, d - 1))
                /\ AllDigits(SubSeq(body, d + 1, Len(body)))
        THEN "Float"
      ELSE IF AllDigits(dv) THEN "Int"
      ELSE IF Ch(dv, 1) = DQ THEN "String"
      ELSE "Json"

\* lines 225-252: the type pattern 5 gives the call
GenericGetType(call) ==
  LET m == MatchDefaultTail(call.rest)
      coerced == IF CoercionOf(m.after) # "" THEN GetterType(CoercionOf(m.after))
                 ELSE WindowType(call)
  IN  IF coerced = "Json" /\ m.hasDefault /\ m.default # <<>>
      THEN LiteralType(Trim(m.default))
      ELSE coerced

\* the object pattern k hands to addField for a call it matches on line n
Candidate(k, call, n) ==
  LET m == MatchDefaultTail(call.rest)
      withDefault == k \in {1, 5} /\ m.hasDefault
  IN  [fieldName |-> call.field,
       type |-> CASE k \in {1, 2} -> GetterType(call.cppType)
                  [] k = 3 -> WindowType(call)
                  [] k = 4 -> ConverterTypeMap[call.before]
                  [] k = 5 -> GenericGetType(call)
                  [] k = 6 -> "Json",
       defaultValue |-> IF withDefault THEN Str(Trim(m.default)) ELSE Null,
       optional |-> IF k \in {1, 5} THEN withDefault /\ m.default # <<>>
                    ELSE k \in {2, 3, 6},
       lineNumber |-> n]

\* the key of line 126
Key(field) == field.fieldName \o ":" \o field.type

\* addField (125-131) on the list and the set
addField(fs, sn, field) ==
  IF Key(field) \in sn THEN [fields |-> fs, seen |-> sn]
  ELSE [fields |-> Append(fs, field), seen |-> sn \cup {Key(field)}]

\* lines 220-222: a typed getter shows in the ten characters before the match
TypedBefore(call) == call.before \in {"get" \o T : T \in TypedGetterTypes}

\* the calls a file is written from
CppCallKinds ==
  { Call("get", "String", "f", <<")">>, ""),
    Call("get", "Int", "f", <<",", " ", "0", ")">>, ""),
    Call("get", "Double", "g", <<")">>, ""),
    Call("get", "String", "f", <<")">>, "jsonToVec2F"),
    Call("opt", "Float", "f", <<")">>, ""),
    Call("opt", "", "f", <<")">>, ""),
    Call("opt", "", "g", <<")">>, "jsonToVec2I"),
    Call("get", "", "f", <<")">>, ""),
    Call("get", "", "f", <<",", " ", "1", ")">>, ""),
    Call("get", "", "g", <<",", " ", "1", ".", "5", "f", ")">>, ""),
    Call("get", "", "f", <<",", "t", "r", "u", "e", " ", ")">>, ""),
    Call("get", "", "g", <<",", " ", DQ, "x", DQ, ")">>, ""),
    Call("get", "", "g", <<",", " ", "{", "}", ")">>, ""),
    Call("get", "", "g", <<",", " ", "J", "s", "o", "n", "A", "r", "r", "a", "y", "(", ")", ")">>, ""),
    Call("get", "", "g", <<")">>, "jsonToColor"),
    Call("get", "", "f", <<")", ".", "t", "o", "I", "n", "t", "(", ")">>, ""),
    Call("get", "", "f", <<")", ")", ".", "t", "o", "F", "l", "o", "a", "t", "(", ")">>, ""),
    Call("get", "", "g", <<")", ")", ".", "t", "o", "U", "I", "n", "t", "(", ")">>, "jsonToColor"),
    Call("get", "", "f", <<")">>, "getInt"),
    Call("contains", "", "f", <<")">>, ""),
    Call("contains", "", "f:Json", <<")">>, "") }

FieldsInit ==
  /\ cppCalls \in SeqsUpTo(CppCallKinds, MaxCalls)
  /\ pattern = 1
  /\ callIdx = 0
  /\ fields = <<>>
  /\ seen = {}

nonFieldVars == <<stripVars, recipeVars, sigVars, luaVars, researchVars, fuVars, storeRuns, db, againVars, tableVars>>

InExec == pattern \in 1..6 /\ callIdx < Len(cppCalls)
CurrentCall == cppCalls[callIdx + 1]

\* exec passes over a call its pattern does not match
ExtractNoMatch ==
  /\ InExec
  /\ ~PatternMatches(pattern, CurrentCall)
  /\ callIdx' = callIdx + 1
  /\ UNCHANGED <<cppCalls, pattern, fields, seen>>
  /\ UNCHANGED nonFieldVars

\* patterns 1 to 4 (144-158, 160-173, 175-197, 199-213): addField
ExtractAddField ==
  /\ InExec
  /\ pattern \in 1..4
  /\ PatternMatches(pattern, CurrentCall)
  /\ LET st == addField(fields, seen, Candidate(pattern, CurrentCall, callIdx + 1))
     IN  fields' = st.fields /\ seen' = st.seen
  /\ callIdx' = callIdx + 1
  /\ UNCHANGED <<cppCalls, pattern>>
  /\ UNCHANGED nonFieldVars

\* pattern 5, lines 219-222: continue
ExtractGenericGetSkip ==
  /\ InExec
  /\ pattern = 5
  /\ PatternMatches(5, CurrentCall)
  /\ TypedBefore(CurrentCall)
  /\ callIdx' = callIdx + 1
  /\ UNCHANGED <<cppCalls, pattern, fields, seen>>
  /\ UNCHANGED nonFieldVars

\* pattern 5, lines 224-266: the key enters the set at line 256, then
\* addField is called with the set that holds it
ExtractGenericGet ==
  /\ InExec
  /\ pattern = 5
  /\ PatternMatches(5, CurrentCall)
  /\ ~TypedBefore(CurrentCall)
  /\ LET field == Candidate(5, CurrentCall, callIdx + 1)
         st == IF Key(field) \notin seen
               THEN addField(fields, seen \cup {Key(field)}, field)
               ELSE [fields |-> fields, seen |-> seen]
     IN  fields' = st.fields /\ seen' = st.seen
  /\ callIdx' = callIdx + 1
  /\ UNCHANGED <<cppCalls, pattern>>
  /\ UNCHANGED nonFieldVars

\* pattern 6, lines 269-284: the set is asked for the bare field name
ExtractContains ==
  /\ InExec
  /\ pattern = 6
  /\ PatternMatches(6, CurrentCall)
  /\ LET st == IF CurrentCall.field \notin seen
               THEN addField(fields, seen, Candidate(6, CurrentCall, callIdx + 1))
               ELSE [fields |-> fields, seen |-> seen]
     IN  fields' = st.fields /\ seen' = st.seen
  /\ callIdx' = callIdx + 1
  /\ UNCHANGED <<cppCalls, pattern>>
  /\ UNCHANGED nonFieldVars

\* exec returns null: the loop of the next pattern starts, or the function
\* returns the list
ExtractNextPattern ==
  /\ pattern \in 1..6
  /\ callIdx = Len(cppCalls)
  /\ pattern' = pattern + 1
  /\ callIdx' = 0
  /\ UNCHANGED <<cppCalls, fields, seen>>
  /\ UNCHANGED nonFieldVars

FieldsNext ==
  \/ ExtractNoMatch
  \/ ExtractAddField
  \/ ExtractGenericGetSkip
  \/ ExtractGenericGet
  \/ ExtractContains
  \/ ExtractNextPattern

SpecFieldsInit ==
  FieldsInit /\ ResearchIdle /\ FuIdle /\ StripIdle /\ RecipeIdle /\ SigIdle /\ LuaIdle /\ DbIdle /\ TablesIdle

SpecFields == SpecFieldsInit /\ [][FieldsNext]_vars

(***************************************************************************)
(* Faults of the FU sub-extractors.  extractRecipes and                    *)
(* extractResearchTrees have no try of their own: the only catch on their  *)
(* path is the one inside readJsonFile.                                    *)
(***************************************************************************)
\* C11 as stated: whatever the recipe and config files parse to, no fault
\* leaves extractRecipes or extractResearchTrees: neither ever ends by a
\* throw.
C11_NoFaultEscapes == rpc # "thrown" /\ respc # "thrown"

\* C13: while batch k of insertData is open, and after a statement of it
\* failed or the process died in it, the store on file holds what the run
\* found plus exactly the batches before k, in the order plain recipes,
\* tiered tables, lab recipes, research nodes; after a failure or a death
\* that is all a reader of the store sees, no entity row and no search row
\* of batch k or of a later batch; a run that ends holds all four batches.
C13_BatchesAtomicInOrder ==
  /\ fupc \in {"batch", "failed", "dead"} =>
       txnStart = FuCommitted(fuBase, FuData, fuBatch - 1)
  /\ fupc \in {"failed", "dead"} => db = FuCommitted(fuBase, FuData, fuBatch - 1)
  /\ fupc = "done" => db = insertData(fuBase, FuData) /\ txnStart = db

\* C13 witness: the second statement of the lab-recipe batch failed after
\* its first had written a row; the store holds the recipes and the tiered
\* table of the earlier batches, no lab recipe and no research node.
C13_Witness ==
  /\ fupc = "failed"
  /\ fuBatch = 3
  /\ fuWrites = 1
  /\ Len(db.recipes) = 2
  /\ Len(db.fu_extraction) = 1
  /\ Len(db.search_index) = 3
  /\ db.fu_research = <<>>

\* the four known tiers, from the most to the least probable
KnownTiers == <<"common", "uncommon", "rare", "rarest">>

\* the outputs, as stored, of the tiered transformation tables in the store
StoredTierOutputs ==
  {o \in UNION {{db.fu_extraction[n].outputs.json[k] :
                   k \in 1..Len(db.fu_extraction[n].outputs.json)} :
                n \in 1..Len(db.fu_extraction)} : "rarity" \in DOMAIN o}

\* C15: a stored output of a tiered transformation table has, in
\* hundredths, the probability 90 for common, 50 for uncommon, 20 for rare
\* and 5 for rarest, and of two stored outputs of known tiers the one of
\* the earlier tier has the strictly larger probability.
C15_TierProbabilities ==
  /\ \A o \in StoredTierOutputs :
       /\ o.rarity = "common" => o.chance = 90
       /\ o.rarity = "uncommon" => o.chance = 50
       /\ o.rarity = "rare" => o.chance = 20
       /\ o.rarity = "rarest" => o.chance = 5
  /\ \A a, b \in StoredTierOutputs :
       \A m, n \in 1..Len(KnownTiers) :
         (a.rarity = KnownTiers[m] /\ b.rarity = KnownTiers[n] /\ m < n)
           => a.chance > b.chance

\* C15 witness: two runs have committed their tiered tables and the store
\* holds an output of each of the four tiers.
C15_Witness ==
  /\ fupc = "done"
  /\ \A m \in 1..Len(KnownTiers) :
       \E o \in StoredTierOutputs : o.rarity = KnownTiers[m]

\* the run a step has just made, when it made one
LastRun == storeRuns'[Len(storeRuns')]
IsExtractorRun == Len(storeRuns') = Len(storeRuns) + 1 /\ LastRun.kind # "seed"

\* the flag that names the root path of an entry point
PathFlag(kind) == IF kind = "fu" THEN "--fu-path" ELSE "--source-path"

\* the root-path argument is missing: the flag is absent or ends the list
RootPathMissing ==
  \A k \in 1..Len(LastRun.args) :
    LastRun.args[k] = PathFlag(LastRun.kind) => k = Len(LastRun.args)

\* the dry-run flag is among the arguments of the run
GivenDryRun == "--dry-run" \in {LastRun.args[k] : k \in 1..Len(LastRun.args)}

\* C12: a run of extract-fu, extract-openstarbound or extract-lua-docs that
\* is given --dry-run, or whose root-path argument is missing, leaves the
\* store exactly as it found it.
C12_DryRunWritesNothing ==
  [][(IsExtractorRun /\ (GivenDryRun \/ RootPathMissing)) => db' = db]_vars

\* C12 witness: after a run that wrote the store, a dry run on a directory
\* that exists was made, and the store holds what the first run left.
C12_Witness ==
  /\ Len(storeRuns) = 2
  /\ storeRuns[1] = [kind |-> "fu", input |-> 1, args |-> <<"--fu-path", "dir">>]
  /\ storeRuns[2] = [kind |-> "lua", input |-> 2,
                     args |-> <<"--source-path", "dir", "--dry-run">>]
  /\ db = insertData(EmptyDb, FuInputs[1])
  /\ Len(db.recipes) = 2
  /\ db.lua_functions = <<>>

\* C14: the store never holds two source rows of one name, and no run
\* deletes a source row or changes its version, description or url: a row
\* stays as the run that created it wrote it.
C14_SourcesCreatedOnce ==
  /\ [](\A m, n \in 1..Len(db.sources) :
          db.sources[m].name = db.sources[n].name => m = n)
  /\ [][/\ Len(db'.sources) >= Len(db.sources)
        /\ \A n \in 1..Len(db.sources) : db'.sources[n] = db.sources[n]]_vars

\* C14 witness: extract-fu created the source frackin-universe without a
\* version and the seed script ran after it: the row still has no version,
\* and the seed's own source vanilla is there with the seed's version.
C14_Witness ==
  /\ Len(storeRuns) = 2
  /\ storeRuns[1] = [kind |-> "fu", input |-> 1, args |-> <<"--fu-path", "dir">>]
  /\ storeRuns[2].kind = "seed"
  /\ Len(db.sources) = 2
  /\ db.sources[1].name = "frackin-universe"
  /\ db.sources[1].version = Null
  /\ db.sources[2].name = "vanilla"
  /\ db.sources[2].version = Str("1.4.4")

\* C16 as stated: a heading of three or four hashes written as
\* table.function(params) without a return type, whatever its parameters,
\* yields a function record, and the record's return type is void.
C16_NoReturnHeadingRecognized ==
  (/\ sigOut.st \notin {"idle", "pending"}
   /\ sigHeading.hashes \in {3, 4}
   /\ sigHeading.ret = <<>>)
    => /\ sigOut.st = "function"
       /\ sigOut.returnType = <<"v", "o", "i", "d">>

\* the lines after the heading at line k (1-based) up to, not including,
\* the next line that is parsed into a function or is a horizontal rule
DescriptionEnd(lines, k) ==
  LET stop == {j \in (k + 1)..Len(lines) :
                 StartsFunction[lines[j]] \/ Trim(lines[j]) = <<"-", "-", "-">>}
  IN  IF stop = {} THEN Len(lines) + 1 ELSE Min(stop)
RefDescriptionLines(lines, k) == SubSeq(lines, k + 1, DescriptionEnd(lines, k) - 1)

\* C17 as stated: the description of every function parsed so far from the
\* current file is the text of the lines after its heading up to the next
\* line recognized as a signature heading or the next horizontal rule; a
\* heading-like line that is no signature is part of the description.
C17_DescriptionBoundaries ==
  \A n \in 1..Len(functions) :
    functions[n].description
      = Trim(JoinLines(RefDescriptionLines(CurrentLines, functions[n].lineNumber)))

(***************************************************************************)
(* The candidates of a file, stated on the calls it holds.  A pattern      *)
(* family recovers a field from a call when its pattern matches the call   *)
(* (for the generic get: and the call is no typed accessor); each call     *)
(* stands on its own line, so an entry of the list is known by its line.   *)
(***************************************************************************)
Returned == pattern = 7

Recovers(k, n) ==
  PatternMatches(k, cppCalls[n]) /\ (k = 5 => ~TypedBefore(cppCalls[n]))

InList(name, type) ==
  \E m \in 1..Len(fields) : fields[m].fieldName = name /\ fields[m].type = type

\* C18 as stated: the returned list never holds two entries of one field
\* name and type, and when two of the families 1 to 5 recover one field
\* name at two different types, both entries are in the list.
C18_KeyedByNameAndType ==
  Returned =>
    /\ \A m, n \in 1..Len(fields) :
         (fields[m].fieldName = fields[n].fieldName /\ fields[m].type = fields[n].type)
           => m = n
    /\ \A a, b \in 1..Len(cppCalls) : \A j, k \in 1..5 :
         (/\ j # k
          /\ Recovers(j, a) /\ Recovers(k, b)
          /\ cppCalls[a].field = cppCalls[b].field
          /\ Candidate(j, cppCalls[a], a).type # Candidate(k, cppCalls[b], b).type)
           => /\ InList(cppCalls[a].field, Candidate(j, cppCalls[a], a).type)
              /\ InList(cppCalls[b].field, Candidate(k, cppCalls[b], b).type)

\* the type the claim gives an untyped accessor: the converter of the
\* window, else the coercion that follows the accessor (behind its own or
\* one more closing parenthesis), else the shape of the default, else Json
RefGetType(call) ==
  LET m == MatchDefaultTail(call.rest)
      coercion == IF CoercionOf(m.after) # "" THEN CoercionOf(m.after)
                  ELSE CoercionOf(<<")">> \o m.after)
  IN  IF WindowType(call) # "Json" THEN WindowType(call)
      ELSE IF coercion # "" THEN GetterType(coercion)
      ELSE IF m.hasDefault THEN LiteralType(Trim(m.default))
      ELSE "Json"

\* C19 as stated: every untyped accessor .get("f") or .get("f", default)
\* that is no typed accessor has its field in the returned list, at the
\* type the converter, the coercion or the default resolves to, and the
\* entry made from it is optional exactly when a default was captured.
C19_GenericGetYieldsCandidate ==
  Returned =>
    \A n \in 1..Len(cppCalls) :
      Recovers(5, n) =>
        \E m \in 1..Len(fields) :
          /\ fields[m].fieldName = cppCalls[n].field
          /\ fields[m].type = RefGetType(cppCalls[n])
          /\ fields[m].lineNumber = n =>
               fields[m].optional = MatchDefaultTail(cppCalls[n].rest).hasDefault

\* C20 as stated: a presence check .contains("f") adds the candidate
\* (f, Json, optional) when none of the families 1 to 5 recovered a field
\* named f in the file, and adds nothing when one did, at whatever type.
C20_ContainsOnlyForUnseenNames ==
  Returned =>
    \A n \in 1..Len(cppCalls) :
      PatternMatches(6, cppCalls[n]) =>
        IF \E a \in 1..Len(cppCalls) : \E k \in 1..5 :
             Recovers(k, a) /\ cppCalls[a].field = cppCalls[n].field
        THEN \A m \in 1..Len(fields) : fields[m].lineNumber # n
        ELSE \E m \in 1..Len(fields) :
               /\ fields[m].fieldName = cppCalls[n].field
               /\ fields[m].type = "Json"
               /\ fields[m].optional
               /\ fields[m].defaultValue = Null

(***************************************************************************)
(* Termination of stripJsonComments.  The function is synchronous: once    *)
(* called, its while loop runs until its condition fails, so a step of the *)
(* loop that can be taken is taken (weak fairness of the loop body).       *)
(***************************************************************************)
SpecStripLive == SpecStrip /\ WF_vars(StripNext)

\* C26: stripJsonComments terminates on every finite input: every iteration
\* of the loop strictly advances the read index i, whatever the branch (in a
\* string, at a trailing backslash, in a line comment, in a terminated or
\* unterminated block comment), and the loop condition i < text.length
\* eventually fails.
C26_StripTerminates == [][i' > i]_vars /\ <>StripDone

\* the loop has ended on a text whose last token is an unterminated block
\* comment: the index has passed the end of the text
C26_Witness == StripDone /\ Len(text) > 0 /\ i > Len(text)

(***************************************************************************)
(* stripJsonComments applied to its own result: when a call has returned,  *)
(* the function is called again with what it returned.                     *)
(***************************************************************************)
StripAgain ==
  /\ stripCalls = <<>>
  /\ StripDone
  /\ stripCalls' = <<text>>
  /\ text' = result
  /\ i' = 0
  /\ result' = <<>>
  /\ inString' = FALSE
  /\ stringChar' = ""
  /\ UNCHANGED <<recipeVars, sigVars, luaVars, researchVars, fuVars, fieldVars, tableVars, storeRuns, db>>

StripTwiceNext == StripNext \/ StripAgain

SpecStripTwice == SpecStripInit /\ [][StripTwiceNext]_vars

\* C27: stripJsonComments is idempotent: for every input x, applying it to
\* stripJsonComments(x) returns stripJsonComments(x) unchanged; the
\* characters left around a removed comment never form a comment opener.
C27_StripIdempotent ==
  (Len(stripCalls) = 1 /\ StripDone) => result = text

\* the second call has returned on a text from which the first call removed
\* a comment and in which a slash is left
C27_Witness ==
  /\ Len(stripCalls) = 1
  /\ StripDone
  /\ stripCalls[1] # text
  /\ \E k \in 1..Len(text) : text[k] = SL

(***************************************************************************)
(* More of the JavaScript value layer, for the tiered tables.  Keys, tier  *)
(* names and item names are strings.                                       *)
(***************************************************************************)
NaN == [t |-> "NaN"]

\* s.startsWith(p)
StartsWith(s, p) == Len(s) >= Len(p) /\ SubSeq(s, 1, Len(p)) = p

\* Array.isArray(v)
IsArray(v) == v.t = "array"

\* Object.entries(v): the entries of an object, the indexed elements of an
\* array, the indexed characters of a string, nothing for a number; null
\* and undefined make it throw
EntriesThrow(v) == IsNullish(v)

EntriesOf(v) ==
  CASE v.t = "object" -> v.v
    [] v.t = "array" -> [n \in 1..Len(v.v) |-> Entry(ToString(n - 1), v.v[n])]
    [] v.t = "string" ->
         [n \in 1..Len(v.v) |-> Entry(ToString(n - 1), Str(SubSeq(v.v, n, n)))]
    [] OTHER -> <<>>

\* String(v)
RECURSIVE StringOf(_)
StringOf(v) ==
  LET RECURSIVE Joined(_, _)
      Joined(q, k) ==
        IF k > Len(q) THEN ""
        ELSE (IF k > 1 THEN "," ELSE "")
             \o (IF IsNullish(q[k]) THEN "" ELSE StringOf(q[k]))
             \o Joined(q, k + 1)
  IN  CASE v.t = "string" -> v.v
        [] v.t = "number" -> ToString(v.v)
        [] v.t = "NaN" -> "NaN"
        [] v.t = "null" -> "null"
        [] v.t = "undefined" -> "undefined"
        [] v.t = "array" -> Joined(v.v, 1)
        [] OTHER -> "[object Object]"

\* the value of a string of decimal digits (0 for the empty string), NaN
\* for a string with any other character; the configs modelled hold no
\* signed, fractional or padded number strings
DigitChars == <<"0", "1", "2", "3", "4", "5", "6", "7", "8", "9">>

RECURSIVE DigitsValue(_, _, _)
DigitsValue(s, k, acc) ==
  IF k > Len(s) THEN Num(acc)
  ELSE LET c == SubSeq(s, k, k)
       IN  IF \E d \in 1..10 : DigitChars[d] = c
           THEN DigitsValue(s, k + 1,
                            10 * acc + (CHOOSE d \in 1..10 : DigitChars[d] = c) - 1)
           ELSE NaN

\* Number(v)
NumberOf(v) ==
  CASE v.t \in {"number", "NaN"} -> v
    [] v.t = "null" -> Num(0)
    [] v.t = "string" -> DigitsValue(v.v, 1, 0)
    [] v.t = "array" -> DigitsValue(StringOf(v), 1, 0)
    [] OTHER -> NaN

(***************************************************************************)
(* extractCentrifugeRecipes (extract-fu.ts 168-208) and                    *)
(* extractExtractionRecipes (229-291).  A config file under the root is    *)
(* missing, or is a file as readJsonFile finds it.                         *)
(***************************************************************************)
NoFile == [exists |-> FALSE, file |-> Unreadable]
FileOf(f) == [exists |-> TRUE, file |-> f]

\* lines 159-166
CENTRIFUGE_GROUP_NAMES ==
  [itemMapFarm |-> "centrifuge (farm)",
   itemMapBees |-> "centrifuge (bees)",
   itemMapLiquids |-> "centrifuge (liquids)",
   itemMapPowder |-> "sifter (powder)",
   itemMapRocks |-> "rock crusher",
   itemMapIsotopes |-> "centrifuge (isotopes)"]

\* line 187: CENTRIFUGE_GROUP_NAMES[groupKey] ?? groupKey
MethodOf(groupKey) ==
  IF groupKey \in DOMAIN CENTRIFUGE_GROUP_NAMES
  THEN CENTRIFUGE_GROUP_NAMES[groupKey]
  ELSE groupKey

\* a variant of the filter that passes every key
PassesAnyKey(groupKey) == TRUE

\* line 186: the keys the loop does not skip
PassesGroupFilter(groupKey) == StartsWith(groupKey, "itemMap")

\* a variant of the shape filter that also asks for one of the four tier names
PassesShapeFilterKnownTier(rarityAndCount) ==
  /\ IsArray(rarityAndCount) /\ Len(rarityAndCount.v) >= 2
  /\ rarityAndCount.v[1] \in {Str("common"), Str("uncommon"), Str("rare"), Str("rarest")}

\* line 193: the outputs the loop does not skip
PassesShapeFilter(rarityAndCount) ==
  IsArray(rarityAndCount) /\ Len(rarityAndCount.v) >= 2

\* lines 191-200: the outputs of one input item, from entry k on
RECURSIVE CentrifugeOutputs(_, _)
CentrifugeOutputs(entries, k) ==
  IF k > Len(entries) THEN <<>>
  ELSE LET rarityAndCount == entries[k].v
           rest == CentrifugeOutputs(entries, k + 1)
       IN  IF ~PassesShapeFilter(rarityAndCount) THEN rest
           ELSE <<[item |-> entries[k].k,
                   rarity |-> StringOf(rarityAndCount.v[1]),
                   count |-> NumberOf(rarityAndCount.v[2])]>> \o rest

\* a variant that pushes a recipe whatever its outputs
KeepRecipeAlways(outputs) == TRUE

\* lines 203 and 278: outputs.length > 0
KeepRecipe(outputs) == Len(outputs) > 0

\* lines 189-206: the recipes of one group, from input entry k on
RECURSIVE CentrifugeGroupRecipes(_, _, _)
CentrifugeGroupRecipes(entries, method, k) ==
  IF k > Len(entries) THEN <<>>
  ELSE LET outputMap == entries[k].v
           rest == CentrifugeGroupRecipes(entries, method, k + 1)
       IN  IF ~IsObjectType(outputMap) THEN rest
           ELSE LET outputs == CentrifugeOutputs(EntriesOf(outputMap), 1)
                IN  IF KeepRecipe(outputs)
                    THEN <<[inputItem |-> entries[k].k, method |-> method,
                            outputs |-> outputs]>> \o rest
                    ELSE rest

\* lines 221-227
EXTRACTION_CONFIGS ==
  <<[file |-> "objects/generic/extractionlab_recipes.config", method |-> "extraction lab"],
    [file |-> "objects/generic/extractionlabmadness_recipes.config", method |-> "psionic amplifier"],
    [file |-> "objects/generic/xenostation_recipes.config", method |-> "xeno research lab"],
    [file |-> "objects/power/fu_liquidmixer/fu_liquidmixer_recipes.config", method |-> "liquid mixer"],
    [file |-> "objects/generic/honeyjarrer_recipes.config", method |-> "honey extractor"]>>

\* a variant of the tier test that asks for exactly three elements
HasThreeTiersExactly(tiers) == IsArray(tiers) /\ Len(tiers.v) = 3

\* line 266
HasThreeTiers(tiers) == IsArray(tiers) /\ Len(tiers.v) >= 3

\* line 271
HasOneTier(tiers) == IsArray(tiers) /\ Len(tiers.v) = 1

\* lines 266-275: the rows one output pushes
LabRows(outputItem, tiers) ==
  IF HasThreeTiers(tiers)
  THEN <<[item |-> outputItem, count |-> tiers.v[1], tier |-> "basic"],
         [item |-> outputItem, count |-> tiers.v[2], tier |-> "improved"],
         [item |-> outputItem, count |-> tiers.v[3], tier |-> "advanced"]>>
  ELSE IF HasOneTier(tiers)
  THEN <<[item |-> outputItem, count |-> tiers.v[1], tier |-> "all"]>>
  ELSE IF tiers.t = "number"
  THEN <<[item |-> outputItem, count |-> tiers, tier |-> "all"]>>
  ELSE <<>>

\* lines 265-276: parsedOutputs, from output entry k on
RECURSIVE LabOutputs(_, _)
LabOutputs(entries, k) ==
  IF k > Len(entries) THEN <<>>
  ELSE LabRows(entries[k].k, entries[k].v) \o LabOutputs(entries, k + 1)

\* lines 262-286: the records of one recipe, from input entry k on
RECURSIVE LabInputRecords(_, _, _, _)
LabInputRecords(inputs, outputs, method, k) ==
  IF k > Len(inputs) THEN <<>>
  ELSE LET parsedOutputs == LabOutputs(outputs, 1)
           rest == LabInputRecords(inputs, outputs, method, k + 1)
       IN  IF KeepRecipe(parsedOutputs)
           THEN <<[inputItem |-> inputs[k].k, inputCount |-> NumberOf(inputs[k].v),
                   method |-> method, outputs |-> parsedOutputs]>> \o rest
           ELSE rest

\* lines 256-287: the body of the loop over the recipes of a file
LabRecipeRecords(recipe, method) ==
  IF ~Truthy(Get(recipe, "inputs")) \/ ~Truthy(Get(recipe, "outputs")) THEN <<>>
  ELSE LabInputRecords(EntriesOf(Get(recipe, "inputs")),
                       EntriesOf(Get(recipe, "outputs")), method, 1)

RECURSIVE LabFileRecords(_, _, _)
LabFileRecords(list, method, k) ==
  IF k > Len(list) THEN <<>>
  ELSE LabRecipeRecords(list[k], method) \o LabFileRecords(list, method, k + 1)

\* line 248: the recipe list of a parsed file that is not falsy
LabList(raw) == IF IsArray(raw) THEN raw ELSE Get(raw, "recipes")

\* line 257 reads recipe.inputs: a TypeError on a null element
LabFileThrows(list) == \E k \in 1..Len(list) : IsNullish(list[k])

(***************************************************************************)
(* A run of extract-fu main (548-628) on a root that holds only the config *)
(* files of the tiered tables: extractCentrifugeRecipes step by step over  *)
(* the top-level entries, extractExtractionRecipes step by step over       *)
(* EXTRACTION_CONFIGS, then insertData on what the two returned.           *)
(***************************************************************************)
\* Bounds on the top-level entries of centrifuge_recipes.config and on the
\* recipes of a lab config.
MaxGroups == 2
MaxLabRecipes == 2

Tiered(rarity, count) == Arr(<<Str(rarity), count>>)

\* top-level entries: a known group, an unknown itemMap group, a key that is
\* not an itemMap, a group whose inputs are malformed, a null group, a
\* number in place of a group
GroupKinds ==
  {Entry("itemMapFarm",
         Obj(<<Entry("comb", Obj(<<Entry("wax", Tiered("common", Num(1))),
                                   Entry("gold", Tiered("legendary", Str("2")))>>))>>)),
   Entry("itemMapOther",
         Obj(<<Entry("sand", Obj(<<Entry("salt", Tiered("rare", Num(1)))>>))>>)),
   Entry("version",
         Obj(<<Entry("ore", Obj(<<Entry("bar", Tiered("common", Num(1)))>>))>>)),
   Entry("itemMapBees",
         Obj(<<Entry("bad", Obj(<<Entry("o", Str("common")),
                                  Entry("p", Arr(<<Str("rare")>>))>>)),
               Entry("n", Num(5)),
               Entry("z", Null),
               Entry("mix", Obj(<<Entry("q", Num(1)),
                                  Entry("egg", Tiered("uncommon", Num(3)))>>)),
               Entry("list", Arr(<<Arr(<<Num(7), Null, Num(1)>>)>>))>>)),
   Entry("itemMapRocks", Null),
   Entry("itemMapPowder", Num(3))}

\* JSON.parse yields an object with no key twice
DistinctKeys(q) == \A a, b \in 1..Len(q) : q[a].k = q[b].k => a = b

CentrifugeFileKinds ==
  {NoFile, FileOf(Unreadable), FileOf(Invalid), FileOf(Json(Num(0))),
   FileOf(Json(Arr(<<Obj(<<>>)>>)))}
  \cup {FileOf(Json(Obj(q))) : q \in {g \in SeqsUpTo(GroupKinds, MaxGroups) : DistinctKeys(g)}}

\* recipes of a lab config: three tiers, two inputs with a bare count and a
\* single-element list, no output that yields a row, a list of four, a
\* recipe with no inputs, a null in place of a recipe
LabRecipeKinds ==
  {Obj(<<Entry("inputs", Obj(<<Entry("ore", Num(2))>>)),
         Entry("outputs", Obj(<<Entry("dust", Arr(<<Num(1), Num(2), Num(3)>>))>>))>>),
   Obj(<<Entry("inputs", Obj(<<Entry("ore", Num(1)), Entry("gem", Str("3"))>>)),
         Entry("outputs", Obj(<<Entry("a", Num(5)), Entry("b", Arr(<<Num(4)>>)),
                                Entry("c", Arr(<<Num(1), Num(2)>>))>>))>>),
   Obj(<<Entry("inputs", Obj(<<Entry("ore", Num(1))>>)),
         Entry("outputs", Obj(<<Entry("a", Arr(<<Num(1), Num(2)>>)),
                                Entry("b", Str("x")), Entry("c", Arr(<<>>)),
                                Entry("d", Null)>>))>>),
   Obj(<<Entry("inputs", Obj(<<Entry("ore", Num(1))>>)),
         Entry("outputs", Obj(<<Entry("a", Arr(<<Num(1), Num(2), Num(3), Num(4)>>))>>))>>),
   Obj(<<Entry("outputs", Obj(<<Entry("a", Num(1))>>))>>),
   Null}

LabFileKinds ==
  {FileOf(Unreadable), FileOf(Invalid), FileOf(Json(Num(7))),
   FileOf(Json(Obj(<<Entry("list", Arr(<<>>))>>)))}
  \cup {FileOf(Json(Arr(q))) : q \in SeqsUpTo(LabRecipeKinds, MaxLabRecipes)}
  \cup {FileOf(Json(Obj(<<Entry("recipes", Arr(q))>>))) : q \in SeqsUpTo(LabRecipeKinds, 1)}

\* the roots of a run: only the centrifuge config, or a centrifuge config of
\* one entry and one of the lab configs
TableRoots ==
  {[centrifuge |-> c, labs |-> [k \in 1..5 |-> NoFile]] : c \in CentrifugeFileKinds}
  \cup {[centrifuge |-> FileOf(Json(Obj(<<g>>))),
         labs |-> [k \in 1..5 |-> IF k = n THEN l ELSE NoFile]] :
          g \in GroupKinds, n \in 1..5, l \in LabFileKinds}

nonTableVars == <<stripVars, recipeVars, sigVars, luaVars, researchVars, fuVars, fieldVars, againVars, storeRuns>>

TablesInit ==
  /\ tableFiles \in TableRoots
  /\ groupIdx = 0
  /\ centrifugeRecipes = <<>>
  /\ labIdx = 0
  /\ extractionRecipes = <<>>
  /\ tpc = "centrifuge"
  /\ storeRuns = <<>>
  /\ db = EmptyDb

\* lines 176-180: what readJsonFile returns for centrifuge_recipes.config
CentrifugeData == ReadJsonFile(tableFiles.centrifuge.file)
CentrifugeEntries == EntriesOf(CentrifugeData)

\* lines 171-181: the config is missing or readJsonFile returned a falsy value
CentrifugeNoConfig ==
  /\ tpc = "centrifuge" /\ groupIdx = 0
  /\ ~tableFiles.centrifuge.exists \/ ~Truthy(CentrifugeData)
  /\ tpc' = "lab"
  /\ UNCHANGED <<tableFiles, groupIdx, centrifugeRecipes, labIdx, extractionRecipes, db>>
  /\ UNCHANGED nonTableVars

InGroupLoop ==
  /\ tpc = "centrifuge"
  /\ tableFiles.centrifuge.exists /\ Truthy(CentrifugeData)
  /\ groupIdx < Len(CentrifugeEntries)

\* line 186: continue
CentrifugeSkipKey ==
  /\ InGroupLoop
  /\ ~PassesGroupFilter(CentrifugeEntries[groupIdx + 1].k)
  /\ groupIdx' = groupIdx + 1
  /\ UNCHANGED <<tableFiles, centrifugeRecipes, labIdx, extractionRecipes, tpc, db>>
  /\ UNCHANGED nonTableVars

\* lines 187-206: the inner loops over one group
CentrifugeGroup ==
  /\ InGroupLoop
  /\ LET e == CentrifugeEntries[groupIdx + 1]
     IN  /\ PassesGroupFilter(e.k)
         /\ ~EntriesThrow(e.v)
         /\ centrifugeRecipes' =
              centrifugeRecipes \o CentrifugeGroupRecipes(EntriesOf(e.v), MethodOf(e.k), 1)
  /\ groupIdx' = groupIdx + 1
  /\ UNCHANGED <<tableFiles, labIdx, extractionRecipes, tpc, db>>
  /\ UNCHANGED nonTableVars

\* line 189: Object.entries of a null group throws, and main catches nothing
CentrifugeThrows ==
  /\ InGroupLoop
  /\ LET e == CentrifugeEntries[groupIdx + 1]
     IN  PassesGroupFilter(e.k) /\ EntriesThrow(e.v)
  /\ tpc' = "thrown"
  /\ UNCHANGED <<tableFiles, groupIdx, centrifugeRecipes, labIdx, extractionRecipes, db>>
  /\ UNCHANGED nonTableVars

\* line 208
CentrifugeReturn ==
  /\ tpc = "centrifuge"
  /\ tableFiles.centrifuge.exists /\ Truthy(CentrifugeData)
  /\ groupIdx = Len(CentrifugeEntries)
  /\ tpc' = "lab"
  /\ UNCHANGED <<tableFiles, groupIdx, centrifugeRecipes, labIdx, extractionRecipes, db>>
  /\ UNCHANGED nonTableVars

InLabLoop == tpc = "lab" /\ labIdx < Len(EXTRACTION_CONFIGS)
LabFile == tableFiles.labs[labIdx + 1]
LabRaw == ReadJsonFile(LabFile.file)

\* lines 234-252: the three ways a config is passed over
LabSkipFile ==
  /\ InLabLoop
  /\ \/ ~LabFile.exists
     \/ ~Truthy(LabRaw)
     \/ ~IsArray(LabList(LabRaw))
  /\ labIdx' = labIdx + 1
  /\ UNCHANGED <<tableFiles, groupIdx, centrifugeRecipes, extractionRecipes, tpc, db>>
  /\ UNCHANGED nonTableVars

InLabFile ==
  /\ InLabLoop
  /\ LabFile.exists
  /\ Truthy(LabRaw)
  /\ IsArray(LabList(LabRaw))

\* lines 254-287: the loop over the recipes of one config
LabRecipes ==
  /\ InLabFile
  /\ ~LabFileThrows(LabList(LabRaw).v)
  /\ extractionRecipes' =
       extractionRecipes
         \o LabFileRecords(LabList(LabRaw).v, EXTRACTION_CONFIGS[labIdx + 1].method, 1)
  /\ labIdx' = labIdx + 1
  /\ UNCHANGED <<tableFiles, groupIdx, centrifugeRecipes, tpc, db>>
  /\ UNCHANGED nonTableVars

LabThrows ==
  /\ InLabFile
  /\ LabFileThrows(LabList(LabRaw).v)
  /\ tpc' = "thrown"
  /\ UNCHANGED <<tableFiles, groupIdx, centrifugeRecipes, labIdx, extractionRecipes, db>>
  /\ UNCHANGED nonTableVars

\* line 290
LabReturn ==
  /\ tpc = "lab"
  /\ labIdx = Len(EXTRACTION_CONFIGS)
  /\ tpc' = "extracted"
  /\ UNCHANGED <<tableFiles, groupIdx, centrifugeRecipes, labIdx, extractionRecipes, db>>
  /\ UNCHANGED nonTableVars

\* lines 571-627 without --dry-run: no .recipe file and no research config
\* under the root, so the other two extractors return empty lists
TablesStore ==
  /\ tpc = "extracted"
  /\ db' = insertData(db, [recipes |-> <<>>, centrifuge |-> centrifugeRecipes,
                           extraction |-> extractionRecipes, research |-> <<>>])
  /\ tpc' = "stored"
  /\ UNCHANGED <<tableFiles, groupIdx, centrifugeRecipes, labIdx, extractionRecipes>>
  /\ UNCHANGED nonTableVars

TablesNext ==
  \/ CentrifugeNoConfig
  \/ CentrifugeSkipKey
  \/ CentrifugeGroup
  \/ CentrifugeThrows
  \/ CentrifugeReturn
  \/ LabSkipFile
  \/ LabRecipes
  \/ LabThrows
  \/ LabReturn
  \/ TablesStore

SpecTablesInit ==
  TablesInit /\ ResearchIdle /\ FuIdle /\ FieldsIdle /\ StripIdle /\ RecipeIdle /\ SigIdle /\ LuaIdle

SpecTables == SpecTablesInit /\ [][TablesNext]_vars

(***************************************************************************)
(* Claims about the tiered tables.                                         *)
(***************************************************************************)
\* extractCentrifugeRecipes has returned
CentrifugeReturned == tpc \in {"lab", "extracted", "stored"}

\* the six keys of the claim
KnownGroupKeys ==
  {"itemMapFarm", "itemMapBees", "itemMapLiquids", "itemMapPowder", "itemMapRocks",
   "itemMapIsotopes"}

\* the record r lists an input item of the top-level entry e of the config
ListsInput(e, r) ==
  \E n \in 1..Len(EntriesOf(e.v)) : EntriesOf(e.v)[n].k = r.inputItem

\* C22 as stated: every record extractCentrifugeRecipes produces comes from
\* one of the six known top-level keys (it carries that key's method label
\* and one of that entry's input items); any other top-level key
\* contributes no record.
C22_AsStated ==
  CentrifugeReturned =>
    \A m \in 1..Len(centrifugeRecipes) :
      \E n \in 1..Len(CentrifugeEntries) :
        /\ CentrifugeEntries[n].k \in KnownGroupKeys
        /\ centrifugeRecipes[m].method = CENTRIFUGE_GROUP_NAMES[CentrifugeEntries[n].k]
        /\ ListsInput(CentrifugeEntries[n], centrifugeRecipes[m])

\* C22 as amended: every record comes from a top-level key that begins with
\* itemMap: it carries the fixed label of a known key, or the key itself
\* when the key is not one of the six; a key that does not begin with
\* itemMap contributes no record.
C22_ItemMapKeysOnly ==
  CentrifugeReturned =>
    \A m \in 1..Len(centrifugeRecipes) :
      \E n \in 1..Len(CentrifugeEntries) :
        LET key == CentrifugeEntries[n].k
        IN  /\ Len(key) >= 7
            /\ \A c \in 1..7 : SubSeq(key, c, c) = SubSeq("itemMap", c, c)
            /\ centrifugeRecipes[m].method =
                 (IF key \in KnownGroupKeys THEN CENTRIFUGE_GROUP_NAMES[key] ELSE key)
            /\ ListsInput(CentrifugeEntries[n], centrifugeRecipes[m])

\* the function has returned on a config with an unknown itemMap key, which
\* gave a record under its own name, and a key that is no itemMap
C22_Witness ==
  /\ CentrifugeReturned
  /\ \E n \in 1..Len(CentrifugeEntries) : CentrifugeEntries[n].k = "version"
  /\ \E m \in 1..Len(centrifugeRecipes) : centrifugeRecipes[m].method = "itemMapOther"

\* an output value the centrifuge shape filter lets through: a list of two
\* elements or more
IsTierPair(v) == v.t = "array" /\ Len(v.v) >= 2

\* the input entry x of a group has an output that passes the shape filter
HasValidOutput(x) ==
  \E n \in 1..Len(EntriesOf(x.v)) : IsTierPair(EntriesOf(x.v)[n].v)

\* C23: every record produced by extractCentrifugeRecipes or
\* extractExtractionRecipes has at least one output, and an input item of
\* the centrifuge config none of whose outputs passes the shape filter has
\* no record.
C23_RecordsHaveOutputs ==
  /\ \A m \in 1..Len(centrifugeRecipes) : Len(centrifugeRecipes[m].outputs) >= 1
  /\ \A m \in 1..Len(extractionRecipes) : Len(extractionRecipes[m].outputs) >= 1
  /\ CentrifugeReturned =>
       \A n \in 1..Len(CentrifugeEntries) :
         \A k \in 1..Len(EntriesOf(CentrifugeEntries[n].v)) :
           LET x == EntriesOf(CentrifugeEntries[n].v)[k]
           IN  ~HasValidOutput(x) =>
                 ~\E m \in 1..Len(centrifugeRecipes) :
                     /\ centrifugeRecipes[m].inputItem = x.k
                     /\ centrifugeRecipes[m].method = MethodOf(CentrifugeEntries[n].k)

\* both functions have returned: the centrifuge config had an input with no
\* valid output next to one with a valid output, which alone gave a record,
\* and a lab config had a recipe that gave a record
C23_Witness ==
  /\ tpc = "extracted"
  /\ \E n \in 1..Len(CentrifugeEntries) :
       /\ CentrifugeEntries[n].k = "itemMapBees"
       /\ \E k \in 1..Len(EntriesOf(CentrifugeEntries[n].v)) :
            ~HasValidOutput(EntriesOf(CentrifugeEntries[n].v)[k])
  /\ Len(centrifugeRecipes) >= 1
  /\ Len(extractionRecipes) >= 1

\* the recipes of the k-th lab config, none when the config is passed over
RefLabList(k) ==
  LET raw == ReadJsonFile(tableFiles.labs[k].file)
  IN  IF ~tableFiles.labs[k].exists \/ ~Truthy(raw) THEN <<>>
      ELSE IF raw.t = "array" THEN raw.v
      ELSE IF Get(raw, "recipes").t = "array" THEN Get(raw, "recipes").v
      ELSE <<>>

TierNames == <<"basic", "improved", "advanced">>

\* the rows the claim gives an output value: exact asks for a list of
\* exactly three elements, otherwise three or more will do
RefRows(item, v, exact) ==
  IF v.t = "number" THEN <<[item |-> item, count |-> v, tier |-> "all"]>>
  ELSE IF v.t = "array" /\ Len(v.v) = 1
  THEN <<[item |-> item, count |-> v.v[1], tier |-> "all"]>>
  ELSE IF v.t = "array" /\ (IF exact THEN Len(v.v) = 3 ELSE Len(v.v) >= 3)
  THEN [n \in 1..3 |-> [item |-> item, count |-> v.v[n], tier |-> TierNames[n]]]
  ELSE <<>>

RECURSIVE RefOutputs(_, _, _)
RefOutputs(entries, k, exact) ==
  IF k = 0 THEN <<>>
  ELSE RefOutputs(entries, k - 1, exact) \o RefRows(entries[k].k, entries[k].v, exact)

\* every record of allRecipes lists, for one input item of one recipe of a
\* config already read, the rows of that recipe's outputs in order
RowsAsClaimed(exact) ==
  \A m \in 1..Len(extractionRecipes) :
    \E k \in 1..labIdx :
      \E j \in 1..Len(RefLabList(k)) :
        LET recipe == RefLabList(k)[j]
            outputs == EntriesOf(Get(recipe, "outputs"))
        IN  /\ recipe.t = "object"
            /\ \E n \in 1..Len(EntriesOf(Get(recipe, "inputs"))) :
                 EntriesOf(Get(recipe, "inputs"))[n].k = extractionRecipes[m].inputItem
            /\ extractionRecipes[m].method = EXTRACTION_CONFIGS[k].method
            /\ extractionRecipes[m].outputs = RefOutputs(outputs, Len(outputs), exact)

\* every input item of a recipe with inputs and outputs, in a config already
\* read, has a record with the rows of the recipe's outputs, unless there
\* are no rows
RowsAllRecorded(exact) ==
  \A k \in 1..labIdx :
    \A j \in 1..Len(RefLabList(k)) :
      LET recipe == RefLabList(k)[j]
          inputs == EntriesOf(Get(recipe, "inputs"))
          outputs == EntriesOf(Get(recipe, "outputs"))
          rows == RefOutputs(outputs, Len(outputs), exact)
      IN  (recipe.t = "object" /\ rows # <<>>) =>
            \A n \in 1..Len(inputs) :
              \E m \in 1..Len(extractionRecipes) :
                /\ extractionRecipes[m].inputItem = inputs[n].k
                /\ extractionRecipes[m].method = EXTRACTION_CONFIGS[k].method
                /\ extractionRecipes[m].outputs = rows

\* the rows of fu_extraction that come from the lab batch (506: their notes
\* hold the input count)
StoredLabRows == SelectSeq(db.fu_extraction, LAMBDA row : row.notes # Null)

\* the stored rows are the records' rows, each with probability 1.0
StoredWithProbabilityOne ==
  tpc = "stored" =>
    /\ Len(StoredLabRows) = Len(extractionRecipes)
    /\ \A m \in 1..Len(extractionRecipes) :
         StoredLabRows[m].outputs.json =
           [n \in 1..Len(extractionRecipes[m].outputs) |->
              [item |-> extractionRecipes[m].outputs[n].item,
               count |-> extractionRecipes[m].outputs[n].count,
               chance |-> 100,
               tier |-> extractionRecipes[m].outputs[n].tier]]

\* C24 as stated: a bare count or a single-element list yields exactly one
\* row with tier "all", a list of exactly three elements yields three rows
\* (basic, improved, advanced, in that order, with the three counts), any
\* other value yields no row, and every row is stored with probability 1.0.
C24_AsStated ==
  RowsAsClaimed(TRUE) /\ RowsAllRecorded(TRUE) /\ StoredWithProbabilityOne

\* C24 as amended: a list of three elements or more yields the three rows,
\* from its first three elements; the rest as stated.
C24_TierRows ==
  RowsAsClaimed(FALSE) /\ RowsAllRecorded(FALSE) /\ StoredWithProbabilityOne

\* the rows of a run are stored: a recipe with a bare count and a
\* single-element list gave two rows "all" and left out its list of two,
\* or a recipe gave three tier rows
C24_Witness ==
  /\ tpc = "stored"
  /\ \E m \in 1..Len(StoredLabRows) :
       LET outs == StoredLabRows[m].outputs.json
       IN  /\ Len(outs) = 2
           /\ outs[1].tier = "all" /\ outs[2].tier = "all"
           /\ outs[1].count = Num(5) /\ outs[2].count = Num(4)

\* the tier name v is written as a string that is none of the four known
UnknownTierName(v) ==
  v.t = "string" /\ \A n \in 1..Len(KnownTiers) : v.v # KnownTiers[n]

\* the stored row of fu_extraction for the input item x of the top-level
\* entry e lists the output o with its tier name as written and with the
\* rarest tier's probability
StoredAsRarest(e, x, o) ==
  \E m \in 1..Len(db.fu_extraction) :
    LET row == db.fu_extraction[m]
    IN  /\ row.input_item = x.k
        /\ row.method = (IF e.k \in KnownGroupKeys THEN CENTRIFUGE_GROUP_NAMES[e.k] ELSE e.k)
        /\ \E n \in 1..Len(row.outputs.json) :
             /\ row.outputs.json[n].item = o.k
             /\ row.outputs.json[n].rarity = o.v.v[1].v
             /\ row.outputs.json[n].chance = 5

\* C30: an output of a tiered transformation table (a top-level itemMap
\* entry, an input item that is an object, an output that is a list of two
\* elements or more) whose tier name is none of common, uncommon, rare,
\* rarest is not filtered out: once the run has stored its data, the row of
\* its input item lists it with probability 0.05 and its tier name as
\* written.
C30_UnknownTierStoredAsRarest ==
  tpc = "stored" =>
    \A a \in 1..Len(CentrifugeEntries) :
      LET e == CentrifugeEntries[a]
      IN  (Len(e.k) >= 7 /\ SubSeq(e.k, 1, 7) = "itemMap") =>
            \A b \in 1..Len(EntriesOf(e.v)) :
              LET x == EntriesOf(e.v)[b]
              IN  x.v.t = "object" =>
                    \A c \in 1..Len(x.v.v) :
                      LET o == x.v.v[c]
                      IN  (IsTierPair(o.v) /\ UnknownTierName(o.v.v[1]))
                            => StoredAsRarest(e, x, o)

\* a run has stored a config whose output gold has the tier legendary
C30_Witness ==
  /\ tpc = "stored"
  /\ \E o \in StoredTierOutputs : o.item = "gold" /\ o.rarity = "legendary" /\ o.chance = 5

(***************************************************************************)
(* The prerequisite relation of the nodes extractResearchTrees returns.    *)
(***************************************************************************)
NodeIds == {nodes[n].nodeId : n \in 1..Len(nodes)}

\* the ids the nodes of the given id name as prerequisites
PrerequisitesOf(id) ==
  UNION {{nodes[n].prerequisites[j] : j \in 1..Len(nodes[n].prerequisites)} :
           n \in {m \in 1..Len(nodes) : nodes[m].nodeId = id}}

\* the ids reached from id by following at most k prerequisite edges
RECURSIVE Ancestors(_, _)
Ancestors(id, k) ==
  IF k = 0 THEN {}
  ELSE LET near == Ancestors(id, k - 1)
       IN  PrerequisitesOf(id) \cup near \cup UNION {PrerequisitesOf(x) : x \in near}

\* C25: for every set of contributing config files, the prerequisite
\* relation of the nodes extractResearchTrees returns is acyclic: no node is
\* reachable from itself by following prerequisite edges.
C25_PrerequisitesAcyclic ==
  respc = "returned" =>
    \A id \in NodeIds : id \notin Ancestors(id, Cardinality(NodeIds))

(***************************************************************************)
(* extract-openstarbound main (384-467) on one database file: the fields   *)
(* extractFieldsFromFile returned are handed to insertExtractedData.       *)
(***************************************************************************)
\* a text of the field extractor as a string value of the store
RECURSIVE StrOfChars(_)
StrOfChars(q) == IF q = <<>> THEN "" ELSE q[1] \o StrOfChars(Tail(q))

\* the file of the run
FieldsFile == "StarTechDatabase.cpp"

\* the elements of results[0].fields (415-420): sourceFile is the base name
\* of the file (121, 152)
ResultField(field) ==
  [fieldName |-> field.fieldName, type |-> field.type,
   defaultValue |-> IF field.defaultValue = Null THEN Null
                    ELSE Str(StrOfChars(field.defaultValue.v)),
   optional |-> field.optional,
   sourceFile |-> FieldsFile, lineNumber |-> field.lineNumber]

\* the store before the run: new, or left by a run on an older source that
\* had the field f as a Bool
PriorFieldStores ==
  {EmptyDb,
   insertExtractedData(EmptyDb,
     <<[fileName |-> FieldsFile, fields |-> <<ExtractedField("f", "Bool", Null, 1)>>]>>)}

FieldsStoreInit ==
  /\ FieldsInit
  /\ db \in PriorFieldStores
  /\ storeRuns = <<>>

\* lines 463-465
FieldsStore ==
  /\ pattern = 7
  /\ storeRuns = <<>>
  /\ db' = insertExtractedData(db,
             <<[fileName |-> FieldsFile,
                fields |-> [n \in 1..Len(fields) |-> ResultField(fields[n])]]>>)
  /\ storeRuns' = <<[kind |-> "fields", input |-> 0]>>
  /\ UNCHANGED nonStoreVars

FieldsStoreNext == FieldsNext \/ FieldsStore

SpecFieldsStoreInit ==
  FieldsStoreInit /\ ResearchIdle /\ FuIdle /\ StripIdle /\ RecipeIdle /\ SigIdle /\ LuaIdle /\ TablesIdle

SpecFieldsStore == SpecFieldsStoreInit /\ [][FieldsStoreNext]_vars

\* the pattern families that yield the candidate c from a call of the file
FamiliesOf(c) ==
  {k \in 1..6 : \E n \in 1..Len(cppCalls) :
                  PatternMatches(k, cppCalls[n]) /\ Candidate(k, cppCalls[n], n) = c}

\* the families from which the file yields a candidate named x
FamiliesNaming(x) ==
  UNION {FamiliesOf(fields[m]) : m \in {n \in 1..Len(fields) : fields[n].fieldName = x}}

\* the file yields x at two types from two families
TwoFamilies(x) ==
  \E a, b \in 1..Len(fields) :
    /\ fields[a].fieldName = x /\ fields[b].fieldName = x
    /\ fields[a].type # fields[b].type
    /\ FamiliesOf(fields[a]) # FamiliesOf(fields[b])

\* the rows of the store d for the field x of the file's asset type
FieldRowsOf(d, x) ==
  {n \in 1..Len(d.asset_fields) :
     /\ d.asset_fields[n].field_path = x
     /\ d.asset_fields[n].asset_type_id =
          AssetTypeIdOf(d, SourceIdOf(d, "openstarbound"), "tech")}

\* the row r holds the definition of the candidate c
HoldsDefinition(r, c) ==
  /\ r.type = c.type
  /\ r.required = (IF c.optional THEN 0 ELSE 1)
  /\ r.default_value = ResultField(c).defaultValue

\* C21: the pattern families are applied in their priority order: when the
\* file yields a field name at different inferred types from two families
\* and the store has no row yet for that (asset type, field path), the store
\* step leaves one row for it, whose type, required flag and default are
\* those of a candidate of the lowest-numbered family that yields the name.
C21_HigherPriorityFamilyStored ==
  [][storeRuns' # storeRuns =>
       \A x \in {fields[n].fieldName : n \in 1..Len(fields)} :
         (TwoFamilies(x) /\ FieldRowsOf(db, x) = {}) =>
           /\ Cardinality(FieldRowsOf(db', x)) = 1
           /\ \A n \in FieldRowsOf(db', x) :
                \E m \in 1..Len(fields) :
                  /\ fields[m].fieldName = x
                  /\ \A k \in FamiliesNaming(x) : \E j \in FamiliesOf(fields[m]) : j <= k
                  /\ HoldsDefinition(db'.asset_fields[n], fields[m])]_vars

\* the fields of a file are stored in a new store: the file yielded g at
\* two types from two families and the row of g has the first one's type
C21_Witness ==
  /\ storeRuns # <<>>
  /\ Len(db.asset_fields) > 0
  /\ \E a, b \in 1..Len(fields) :
       /\ a < b
       /\ fields[a].fieldName = "g" /\ fields[b].fieldName = "g"
       /\ fields[a].type # fields[b].type
       /\ FamiliesOf(fields[a]) # FamiliesOf(fields[b])
       /\ \E n \in FieldRowsOf(db, "g") : db.asset_fields[n].type = fields[a].type

\* ---------------------------------------------------------------------
\* the search index against the entity tables (extract-lua-docs.ts
\* insertLuaData, extract-fu.ts insertData, extract-openstarbound.ts
\* insertExtractedData): search rows are only ever appended, while
\* INSERT OR REPLACE deletes the conflicting row of lua_functions or
\* fu_research and stores the new one under a fresh id

\* the entity table a search row of the given entity type points into
EntityTable(d, type) ==
  CASE type = "lua_function" -> d.lua_functions
    [] type = "asset_type" -> d.asset_types
    [] type = "asset_field" -> d.asset_fields
    [] type = "recipe" -> d.recipes
    [] type = "fu_extraction" -> d.fu_extraction
    [] type = "fu_research" -> d.fu_research
    [] OTHER -> <<>>

\* the search row r of store d identifies a stored row
IdentifiesRow(d, r) ==
  \E m \in 1..Len(EntityTable(d, r.entity_type)) :
    EntityTable(d, r.entity_type)[m].id = r.entity_id

\* C28: after any sequence of extractor runs, every search-index row's
\* (entity type, entity id) identifies a row that exists in the
\* corresponding entity table, also after a re-run or a duplicate key
\* has replaced a function or research-node row
C28_SearchRowsIdentifyRows ==
  \A n \in 1..Len(db.search_index) : IdentifiesRow(db, db.search_index[n])

\* ---------------------------------------------------------------------
\* signatures of one name that are not consecutive (extract-lua-docs.ts
\* parseMarkdownFile 197-200, insertLuaData 243-301)

\* the signatures of the whole run in the order main reads them: the files
\* of doc/lua, then those of doc/lua/openstarbound
RunSignatures ==
  DirectorySignatures(FALSE, Len(docFiles)) \o DirectorySignatures(TRUE, Len(docFiles))

\* sigs[b] is the later of two same-named signatures that are not
\* consecutive: sigs[a] comes before it, the entry just before sigs[b] is
\* of another name or of another file, and none of the name follows it
LaterOfTwoApart(sigs, a, b) ==
  /\ a < b
  /\ SameFunction(sigs[a], sigs[b])
  /\ ~(sigs[b - 1].file = sigs[b].file /\ SameFunction(sigs[b - 1], sigs[b]))
  /\ \A m \in (b + 1)..Len(sigs) : ~SameFunction(sigs[m], sigs[b])

\* the rows of lua_functions of a table name and a function name, whatever
\* the source of the table
RowsNamed(sig) ==
  {n \in 1..Len(db.lua_functions) :
     /\ TableRowOf(db, db.lua_functions[n].table_id).name = sig.tableName
     /\ db.lua_functions[n].name = sig.functionName}

\* row n holds the signature alone: its signature text, description,
\* return type, parameters and provenance, nothing of another entry
IsAlone(n, sig) ==
  [db.lua_functions[n] EXCEPT !.id = 0] =
    FunctionRow(db.lua_functions[n].table_id,
                [ParsedFunction(docFiles[sig.file].lines, sig.line - 1, <<>>, sig.file)
                   EXCEPT !.isOverload = FALSE])

\* C29 as stated: of two signatures of a run with the same table name and
\* function name that are not consecutive, whatever files they come from,
\* the one record stored under that name is the later one alone.
C29_AsStated ==
  lpc = "done" =>
    LET sigs == RunSignatures
    IN  \A a \in 1..Len(sigs) : \A b \in 1..Len(sigs) :
          LaterOfTwoApart(sigs, a, b) =>
            /\ Cardinality(RowsNamed(sigs[b])) = 1
            /\ \A n \in RowsNamed(sigs[b]) : IsAlone(n, sigs[b])

\* C29 amended: of two signatures of one documentation directory (so of one
\* source) with the same table and function name that are not consecutive,
\* the later one followed by none of that name, the record stored for the
\* directory's source is the later one alone: the earlier one's signature,
\* description and parameters are discarded.
C29_LaterAloneInDirectory ==
  lpc = "done" =>
    \A osb \in BOOLEAN :
      LET sigs == DirectorySignatures(osb, Len(docFiles))
      IN  \A a \in 1..Len(sigs) : \A b \in 1..Len(sigs) :
            LaterOfTwoApart(sigs, a, b) =>
              /\ Cardinality(StoredRows(osb, sigs[b])) = 1
              /\ \A n \in StoredRows(osb, sigs[b]) : IsAlone(n, sigs[b])

\* C29 witness: entity.id with one parameter, player.id and another
\* entity.id in one file; the run has stored the third heading alone.
C29_Witness ==
  /\ lpc = "done"
  /\ docFiles = <<[osb |-> FALSE,
                   lines |-> <<DocSignature(entity, <<"i", "d">>, <<"V">>, 3),
                               DocSignature(player, <<"i", "d">>, <<"E">>, 0),
                               DocSignature(entity, <<"i", "d">>, <<"B">>, 1)>>]>>
  /\ LaterOfTwoApart(DirectorySignatures(FALSE, 1), 1, 3)
  /\ \E n \in 1..Len(db.lua_functions) :
       /\ db.lua_functions[n].return_type = <<"B">>
       /\ Len(db.lua_functions[n].parameters) = 1
       /\ IsAlone(n, DirectorySignatures(FALSE, 1)[3])

====
